---- MODULE Spec2Model ----
(***************************************************************************)
(* Connection-establishment layer of the NETCONF library (v2/netconf):     *)
(*   - the client Transport over the Dialer variants (package client),     *)
(*   - RFC 8071 Call Home: the manager-side listeners (package             *)
(*     client/callhome) against the device-side dialers (package           *)
(*     server/callhome), with the SSH channel/subsystem negotiation.       *)
(* The Go libraries below the repository (net, crypto/tls, x/crypto/ssh)   *)
(* are the environment: their outcomes are nondeterministic inputs.        *)
(***************************************************************************)
EXTENDS Integers, Sequences, FiniteSets, TLC

\* ------------------------------------------------------------------ bounds
MaxTransports == 2      \* NewTransport calls made on the one Dialer
MaxOps == 2             \* Read / Write / Close and session-factory calls made
MaxOpens == 2           \* channel-open requests an SSH peer sends
MaxReqs == 2            \* channel requests an SSH peer sends
MaxCfgVal == 2          \* largest value a Config field takes
MaxBytes == 2           \* bytes written in each direction of a Call Home stream

VARIABLES
  \* ---- client Transport world (package client)
  dkind,      \* the Dialer variant under the Transport
  ntr,        \* NewTransport calls made so far
  tstat,      \* per NewTransport call: "none" | "live" | "nil" (returned nil, err)
              \* | "dropped" (closed by the session factory, handed to nobody)
  tconn,      \* transportImpl.conn of each Transport
  res,        \* per Dial: what it opened ("none" | "open" | "closed")
  ext,        \* the caller-supplied ssh.Client / connection of a reuse variant
  nops,       \* Read / Write / Close and session-factory calls made so far
  log,        \* per Transport: calls, returns, trace-hook emissions and closes, in order
  cfgIn,      \* the caller's Config record, handed to the session factory as *cfg
  cfgResolved, \* the resolvedConfig of the last factory call (<<>> before it)
  defaultConfig, \* the process-wide DefaultConfig record
  \* ---- trace bundles (client/callhome, server/callhome, server/tls)
  trComp,     \* the component that is handed a bundle
  trRoute,    \* how: through the context ("ctx") or as a constructor argument ("opt")
  trGiven,    \* what the caller supplied: nothing, a nil *Trace, or a bundle
  trHeld,     \* the bundle the component keeps (<<>> before construction)
  trEmitted,  \* the slots the component has invoked so far
  trPanic,    \* an invocation dereferenced an unset slot
  \* ---- life cycle of a listener, server or Call Home dialer
  epKind,     \* which component
  epBindable, \* whether the listen address can be bound
  epObj,      \* what the constructor returned: "none" (not called), "nil", "live"
  epErr,      \* the error the constructor returned
  epSock,     \* the listening socket: "none", "open", "closed"
  epLoop,     \* the accept goroutine of the TLS server: "none", "running"
              \* (in Accept), "handshaking", "returned"
  epConns,    \* the connections handed out: "none", "open", "closed"; in the
              \* TLS server also "pending" (in the handshake) and "refused"
  epLog,      \* what the calls made on the component returned, in order
  epArgs,     \* the arguments the Call Home dialer is constructed with
  epDialer,   \* the fields of the Call Home dialer: target, netDialer
  epDials,    \* the DialContext calls made, in order
  \* ---- one connection attempt of a TLS / SSH establishment path
  esPath,     \* which function runs
  esCtx,      \* its context: "none", "deadline" (not yet passed), "expired",
              \* "cancelled" (cancelled, without a deadline)
  esPc,       \* where it is: "start", "wrap", "handshake", "session",
              \* "subsystem", "retConn", "retErr"
  esRes,      \* the resources of the attempt and the deadline on the connection
  esLog,      \* hooks emitted and closes performed, in order
  \* ---- one SSH stream wrapper
  swKind,     \* sshConn, sshSessionConn or the client call-home sshCallhomeConn
  swPipes,    \* the reader and writer fields: "none" (nil) or "open"
  swReqs,     \* StdoutPipe / StdinPipe requests made, per direction
  swLog,      \* what Read / Write returned, in order
  \* ---- Call Home world (client/callhome listener, server/callhome dialer)
  proto,      \* "ssh" | "tls"
  scen,       \* who answers the dialer: "callhome" | "faulty" (the listener, without
              \* / with environment faults) | "raw" (an arbitrary SSH client)
  compat,     \* whether the two configurations can complete a handshake
  ctx,        \* per side: the context handed to Accept / Dial
  tcp,        \* the TCP connection: "none" | "backlog" | "accepted" | "refused"
  hs,         \* outcome of the secure handshake: "none" | "ok" | "fail"
  role,       \* per side: TCP role and secure-handshake role taken
  apc,        \* Accept: where the call stands
  dpc,        \* Dial: where the call stands
  gpc,        \* the request-servicing goroutine of handleChannels
  aret,       \* what Accept returned: "none" | "conn" | the error
  dret,       \* what Dial returned: "none" | "conn" | the error
  chans,      \* channel-open requests the dialer has not yet received
  requests,   \* channel requests the goroutine has not yet received
  closed,     \* which incoming streams the peer has closed
  subsystemChan, \* the buffered signalling channel (capacity 1)
  replies,    \* what the dialer answered to the peer, in order
  own,        \* per side: the resources of this attempt ("none" | "open" | "closed")
  clog,       \* per side: trace-hook emissions and closes, in order
  wire,       \* per direction: bytes written and not yet read
  sent,       \* per direction: bytes written so far
  rcvd,       \* per direction: bytes read so far
  lsock,      \* the listening socket: "open" | "closed"
  peerSent    \* channel opens and channel requests the raw peer has sent

cfgvars == <<cfgIn, cfgResolved, defaultConfig>>

trvars == <<trComp, trRoute, trGiven, trHeld, trEmitted, trPanic>>

epvars == <<epKind, epBindable, epObj, epErr, epSock, epLoop, epConns, epLog,
            epArgs, epDialer, epDials>>

epdvars == <<epArgs, epDialer, epDials>>

esvars == <<esPath, esCtx, esPc, esRes, esLog>>

swvars == <<swKind, swPipes, swReqs, swLog>>

tvars == <<dkind, ntr, tstat, tconn, res, ext, nops, log,
           cfgIn, cfgResolved, defaultConfig,
           trComp, trRoute, trGiven, trHeld, trEmitted, trPanic,
           epKind, epBindable, epObj, epErr, epSock, epLoop, epConns, epLog,
           epArgs, epDialer, epDials,
           esPath, esCtx, esPc, esRes, esLog,
           swKind, swPipes, swReqs, swLog>>

chvars == <<proto, scen, compat, ctx, tcp, hs, role, apc, dpc, gpc, aret, dret,
            chans, requests, closed, subsystemChan, replies, own, clog,
            wire, sent, rcvd, lsock, peerSent>>

vars == <<dkind, ntr, tstat, tconn, res, ext, nops, log,
          cfgIn, cfgResolved, defaultConfig,
          trComp, trRoute, trGiven, trHeld, trEmitted, trPanic,
          epKind, epBindable, epObj, epErr, epSock, epLoop, epConns, epLog,
          epArgs, epDialer, epDials,
          esPath, esCtx, esPc, esRes, esLog,
          swKind, swPipes, swReqs, swLog,
          proto, scen, compat, ctx, tcp, hs, role, apc, dpc, gpc, aret, dret,
          chans, requests, closed, subsystemChan, replies, own, clog,
          wire, sent, rcvd, lsock, peerSent>>

\* ---------------------------------------------------------------- helpers
clientvars == <<dkind, ntr, tstat, tconn, res, ext, nops, log>>

TrIds == 1..MaxTransports

FreshKinds == {"SSHDialer", "TLSDialer"}
ReuseKinds == {"SSHClientDialer", "TLSConnDialer", "CHSSHConnDialer", "CHTLSConnDialer"}
\* "AnyDialer": any other implementation of the Dialer interface, whose Dial
\* may hand back a connection object together with an error
OtherKinds == {"AnyDialer"}
DialerKinds == FreshKinds \cup ReuseKinds \cup OtherKinds

ResKeys == {"client", "session", "writer", "reader", "netconn"}
NoRes == [k \in ResKeys |-> "none"]

\* log entries
Call(t, name) == [k |-> "call", name |-> name, tr |-> t, n |-> 0, err |-> FALSE]
Ret(t, name, n, err) == [k |-> "ret", name |-> name, tr |-> t, n |-> n, err |-> err]
Hook(t, name, n, err) == [k |-> "hook", name |-> name, tr |-> t, n |-> n, err |-> err]
Cls(t, name) == [k |-> "close", name |-> name, tr |-> t, n |-> 0, err |-> FALSE]
Io(t, name) == [k |-> "io", name |-> name, tr |-> t, n |-> 0, err |-> FALSE]

\* the log is kept per Transport (0: calls made on the Dialer itself)
LogIds == 0..MaxTransports
NoLog == [t \in LogIds |-> <<>>]

\* the entries of the log that belong to Transport t
OfTr(l, t) == l[t]

\* positions of the entries of kind k named name
Pos(s, k, name) == {i \in 1..Len(s) : s[i].k = k /\ s[i].name = name}

\* byte counts a single Read / Write may report (len(p) is the caller's choice)
Counts == {0, 1}

\* ------------------------------------------------- package client: Dialers
\* What a Dial returns: the connection ("nil" on error), the error flag, the
\* hook emissions and closes it performed, and the resources it leaves behind.
DialResult(conn, err, ev, r) == [conn |-> conn, err |-> err, ev |-> ev, res |-> r]

DialOutcomes(kind) ==
  CASE kind = "SSHDialer" -> {"ok", "failDial", "failSession", "failSubsystem"}
    [] kind = "TLSDialer" -> {"ok", "failDial", "failHandshake"}
    [] kind = "SSHClientDialer" -> {"ok", "failSession", "failSubsystem"}
    [] kind = "AnyDialer" -> {"ok", "fail", "failPartial"}
    [] OTHER -> {"ok"}

\* client.SSHDialer.Dial: ssh.Dial, NewSession, RequestSubsystem("netconf")
ClientSSHDialerDial(t, o) ==
  LET start == <<Hook(t, "DialStart", 0, FALSE)>>
      done(e) == <<Hook(t, "DialDone", 0, e)>>
  IN CASE o = "failDial" ->
            DialResult("nil", TRUE, start \o done(TRUE), NoRes)
       [] o = "failSession" ->
            DialResult("nil", TRUE,
                       start \o <<Cls(t, "client")>> \o done(TRUE),
                       [NoRes EXCEPT !.client = "closed"])
       [] o = "failSubsystem" ->
            DialResult("nil", TRUE,
                       start \o <<Cls(t, "session"), Cls(t, "client")>> \o done(TRUE),
                       [NoRes EXCEPT !.client = "closed", !.session = "closed"])
       [] OTHER ->
            DialResult("sshConn", FALSE, start \o done(FALSE),
                       [NoRes EXCEPT !.client = "open", !.session = "open"])

\* client.SSHClientDialer.Dial: a new session on the caller's client
SSHClientDialerDial(t, o) ==
  CASE o = "failSession" -> DialResult("nil", TRUE, <<>>, NoRes)
    [] o = "failSubsystem" ->
         DialResult("nil", TRUE, <<Cls(t, "session")>>,
                    [NoRes EXCEPT !.session = "closed"])
    [] OTHER ->
         DialResult("sshSessionConn", FALSE, <<>>, [NoRes EXCEPT !.session = "open"])

\* client.TLSDialer.Dial: TCP dial, tls.Client, Handshake
ClientTLSDialerDial(t, o) ==
  LET start == <<Hook(t, "DialStart", 0, FALSE)>>
      done(e) == <<Hook(t, "DialDone", 0, e)>>
  IN CASE o = "failDial" ->
            DialResult("nil", TRUE, start \o done(TRUE), NoRes)
       [] o = "failHandshake" ->
            DialResult("nil", TRUE, start \o <<Cls(t, "netconn")>> \o done(TRUE),
                       [NoRes EXCEPT !.netconn = "closed"])
       [] OTHER ->
            DialResult("tlsConn", FALSE, start \o done(FALSE),
                       [NoRes EXCEPT !.netconn = "open"])

\* client.TLSConnDialer.Dial, callhome.SSHConnDialer.Dial, callhome.TLSConnDialer.Dial:
\* return d.conn, nil
ConnDialerDial(t, o) == DialResult("extConn", FALSE, <<>>, NoRes)

\* mutant: every Dial allocates
ConnObject_AlwaysFresh(conn, t) == <<conn, t>>

\* the object a Dial made for Transport t returns: the reuse variants hand
\* out the one connection they were constructed with (return d.conn, nil),
\* the others a new wrapper (&sshConn{...}, &sshSessionConn{...}, tls.Client)
ConnObject(conn, t) == IF conn = "extConn" THEN <<conn, 0>> ELSE <<conn, t>>

\* Dialer.Dial of another implementation: a connection, an error, or both
AnyDialerDial(t, o) ==
  CASE o = "fail" -> DialResult("nil", TRUE, <<>>, NoRes)
    [] o = "failPartial" ->
         DialResult("anyConn", TRUE, <<>>, [NoRes EXCEPT !.netconn = "open"])
    [] OTHER -> DialResult("anyConn", FALSE, <<>>, [NoRes EXCEPT !.netconn = "open"])

DialerDial(kind, t, o) ==
  CASE kind = "SSHDialer" -> ClientSSHDialerDial(t, o)
    [] kind = "AnyDialer" -> AnyDialerDial(t, o)
    [] kind = "SSHClientDialer" -> SSHClientDialerDial(t, o)
    [] kind = "TLSDialer" -> ClientTLSDialerDial(t, o)
    [] OTHER -> ConnDialerDial(t, o)

\* What a Close returns: the error flag, the closes performed in order, and
\* the resources afterwards. errs[k] is whether closing k reports an error.
CloseResult(err, cl, r, x) == [err |-> err, closes |-> cl, res |-> r, ext |-> x]

CloseErrs == [{"writer", "session", "client", "netconn"} -> BOOLEAN]

\* sshConn.Close: writer (if opened), session, client; every one is closed,
\* the first error is returned
sshConnClose(t, r, x, errs) ==
  LET w == r.writer /= "none"
  IN CloseResult((w /\ errs["writer"]) \/ errs["session"] \/ errs["client"],
                 (IF w THEN <<Cls(t, "writer")>> ELSE <<>>)
                   \o <<Cls(t, "session"), Cls(t, "client")>>,
                 [r EXCEPT !.writer = IF w THEN "closed" ELSE @,
                           !.session = "closed", !.client = "closed"],
                 x)

\* sshSessionConn.Close: writer (if opened), session; never the client
sshSessionConnClose(t, r, x, errs) ==
  LET w == r.writer /= "none"
  IN CloseResult((w /\ errs["writer"]) \/ errs["session"],
                 (IF w THEN <<Cls(t, "writer")>> ELSE <<>>) \o <<Cls(t, "session")>>,
                 [r EXCEPT !.writer = IF w THEN "closed" ELSE @,
                           !.session = "closed"],
                 x)

\* tls.Conn.Close on the connection TLSDialer.Dial made
tlsConnClose(t, r, x, errs) ==
  CloseResult(errs["netconn"], <<Cls(t, "netconn")>>,
              [r EXCEPT !.netconn = "closed"], x)

\* conn.Close() by the dynamic type of conn
ConnClose(conn, t, r, x, errs) ==
  CASE conn = "sshConn" -> sshConnClose(t, r, x, errs)
    [] conn = "sshSessionConn" -> sshSessionConnClose(t, r, x, errs)
    [] conn = "tlsConn" -> tlsConnClose(t, r, x, errs)
    [] conn = "anyConn" -> tlsConnClose(t, r, x, errs)
    [] OTHER -> CloseResult(errs["netconn"], <<Cls(t, "ext")>>, r, "closed")

\* SSHDialer.Close, SSHClientDialer.Close, TLSDialer.Close:
\* if conn != nil { return conn.Close() }; return nil
DelegatingClose(conn, t, r, x, errs) ==
  IF conn /= "nil" THEN ConnClose(conn, t, r, x, errs)
  ELSE CloseResult(FALSE, <<>>, r, x)

\* mutant: a reuse-variant Close that closes the connection it is handed
NoOpClose_Delegates(conn, t, r, x, errs) == DelegatingClose(conn, t, r, x, errs)

\* TLSConnDialer.Close, callhome.SSHConnDialer.Close, callhome.TLSConnDialer.Close:
\* return nil
NoOpClose(conn, t, r, x, errs) == CloseResult(FALSE, <<>>, r, x)

DialerClose(kind, conn, t, r, x, errs) ==
  IF kind \in {"SSHDialer", "SSHClientDialer", "TLSDialer", "AnyDialer"}
  THEN DelegatingClose(conn, t, r, x, errs)
  ELSE NoOpClose(conn, t, r, x, errs)

\* the closes a dialer.Close(conn) performs, hence the ones that can fail
CloseKeys(kind, conn, r) ==
  IF kind \notin {"SSHDialer", "SSHClientDialer", "TLSDialer", "AnyDialer"} THEN {}
  ELSE CASE conn = "nil" -> {}
         [] conn = "sshConn" ->
              {"session", "client"} \cup (IF r.writer /= "none" THEN {"writer"} ELSE {})
         [] conn = "sshSessionConn" ->
              {"session"} \cup (IF r.writer /= "none" THEN {"writer"} ELSE {})
         [] OTHER -> {"netconn"}

CloseErrsOf(kind, conn, r) ==
  {e \in CloseErrs : \A k \in DOMAIN e : e[k] => k \in CloseKeys(kind, conn, r)}

\* ---------------------------------------------- package client: Transport
\* NewTransport(ctx, dialer): ConnectStart; Dial; on error close a partial
\* connection through dialer.Close; ConnectDone(err) last (deferred first)
\* mutant: a connection returned together with an error is left alone
ClosesPartial_Never(d) == FALSE

\* the deferred `if err != nil && impl.conn != nil { _ = dialer.Close(impl.conn) }`
ClosesPartial(d) == d.err /\ d.conn /= "nil"

\* mutant: ConnectDone emitted before the dial instead of deferred
NewTransportLog_DoneBeforeDial(t, d, c) ==
  <<Call(t, "NewTransport"), Hook(t, "ConnectStart", 0, FALSE),
    Hook(t, "ConnectDone", 0, d.err)>>
    \o d.ev \o <<Ret(t, "NewTransport", 0, d.err)>>

NewTransportLog(t, d, c) ==
  <<Call(t, "NewTransport"), Hook(t, "ConnectStart", 0, FALSE)>>
    \o d.ev
    \o (IF ClosesPartial(d) THEN <<Io(t, "dialer.Close")>> \o c.closes ELSE <<>>)
    \o <<Hook(t, "ConnectDone", 0, d.err), Ret(t, "NewTransport", 0, d.err)>>

NewTransport ==
  /\ ntr < MaxTransports
  /\ \E o \in DialOutcomes(dkind) :
     \E errs \in CloseErrsOf(dkind,
                             IF ClosesPartial(DialerDial(dkind, ntr + 1, o))
                             THEN DialerDial(dkind, ntr + 1, o).conn ELSE "nil",
                             DialerDial(dkind, ntr + 1, o).res) :
       LET t == ntr + 1
           d == DialerDial(dkind, t, o)
           partial == ClosesPartial(d)
           c == DialerClose(dkind, d.conn, t, d.res, ext, errs)
       IN /\ ntr' = t
          /\ tstat' = [tstat EXCEPT ![t] = IF d.err THEN "nil" ELSE "live"]
          /\ tconn' = [tconn EXCEPT ![t] = d.conn]
          /\ res' = [res EXCEPT ![t] = IF partial THEN c.res ELSE d.res]
          /\ ext' = IF partial THEN c.ext ELSE ext
          /\ log' = [log EXCEPT ![t] = @ \o NewTransportLog(t, d, c)]
  /\ UNCHANGED <<dkind, nops>>
  /\ UNCHANGED <<cfgvars, trvars, epvars, esvars, swvars>>
  /\ UNCHANGED chvars

\* whether the stream under conn has been closed
StreamClosed(conn, r, x) ==
  CASE conn \in {"sshConn", "sshSessionConn"} -> r.session = "closed"
    [] conn \in {"tlsConn", "anyConn"} -> r.netconn = "closed"
    [] OTHER -> x = "closed"

\* What a Read / Write returns, and the pipes afterwards
IOResult(n, err, r) == [n |-> n, err |-> err, res |-> r]

\* mutant: the reader field set although StdoutPipe failed
sshConnRead_OpensOnFailure(r, pipeOk, n, e) ==
  IF r.reader = "none" /\ ~pipeOk THEN [n |-> 0, err |-> TRUE, res |-> [r EXCEPT !.reader = "open"]]
  ELSE [n |-> n, err |-> e, res |-> [r EXCEPT !.reader = "open"]]

\* sshConn.Read / sshSessionConn.Read / sshCallhomeConn.Read (client/callhome):
\* StdoutPipe on first use, then Read
sshConnRead(r, pipeOk, n, e) ==
  IF r.reader = "none" /\ ~pipeOk THEN IOResult(0, TRUE, r)
  ELSE IOResult(n, e, [r EXCEPT !.reader = "open"])

\* sshConn.Write / sshSessionConn.Write: StdinPipe on first use, then Write
sshConnWrite(r, pipeOk, n, e) ==
  IF r.writer = "none" /\ ~pipeOk THEN IOResult(0, TRUE, r)
  ELSE IOResult(n, e, [r EXCEPT !.writer = IF @ = "none" THEN "open" ELSE @])

ConnRead(conn, r, pipeOk, n, e) ==
  IF conn \in {"sshConn", "sshSessionConn"} THEN sshConnRead(r, pipeOk, n, e)
  ELSE IOResult(n, e, r)

ConnWrite(conn, r, pipeOk, n, e) ==
  IF conn \in {"sshConn", "sshSessionConn"} THEN sshConnWrite(r, pipeOk, n, e)
  ELSE IOResult(n, e, r)

\* outcomes the stream can produce: nothing succeeds on a closed stream
IOInputs(conn, r, x) ==
  {in \in [pipeOk : BOOLEAN, n : Counts, e : BOOLEAN] :
     /\ StreamClosed(conn, r, x) => (in.e /\ in.n = 0)
     /\ in.e => in.n = 0
     /\ (conn \notin {"sshConn", "sshSessionConn"}) => in.pipeOk}

\* mutant: ReadDone given the results as they were when the defer was set up
TransportReadLog_StaleDone(t, io) ==
  <<Call(t, "Read"), Hook(t, "ReadStart", 0, FALSE), Io(t, "conn.Read"),
    Hook(t, "ReadDone", 0, FALSE), Ret(t, "Read", io.n, io.err)>>

\* transportImpl.Read: ReadStart, conn.Read, ReadDone(n, err) deferred
TransportReadLog(t, io) ==
  <<Call(t, "Read"), Hook(t, "ReadStart", 0, FALSE), Io(t, "conn.Read"),
    Hook(t, "ReadDone", io.n, io.err), Ret(t, "Read", io.n, io.err)>>

TransportRead(t) ==
  /\ tstat[t] = "live"
  /\ nops < MaxOps
  /\ \E in \in IOInputs(tconn[t], res[t], ext) :
       LET io == ConnRead(tconn[t], res[t], in.pipeOk, in.n, in.e)
       IN /\ res' = [res EXCEPT ![t] = io.res]
          /\ log' = [log EXCEPT ![t] = @ \o TransportReadLog(t, io)]
  /\ nops' = nops + 1
  /\ UNCHANGED <<dkind, ntr, tstat, tconn, ext>>
  /\ UNCHANGED <<cfgvars, trvars, epvars, esvars, swvars>>
  /\ UNCHANGED chvars

\* transportImpl.Write: WriteStart, conn.Write, WriteDone(n, err) deferred
TransportWriteLog(t, io) ==
  <<Call(t, "Write"), Hook(t, "WriteStart", 0, FALSE), Io(t, "conn.Write"),
    Hook(t, "WriteDone", io.n, io.err), Ret(t, "Write", io.n, io.err)>>

TransportWrite(t) ==
  /\ tstat[t] = "live"
  /\ nops < MaxOps
  /\ \E in \in IOInputs(tconn[t], res[t], ext) :
       LET io == ConnWrite(tconn[t], res[t], in.pipeOk, in.n, in.e)
       IN /\ res' = [res EXCEPT ![t] = io.res]
          /\ log' = [log EXCEPT ![t] = @ \o TransportWriteLog(t, io)]
  /\ nops' = nops + 1
  /\ UNCHANGED <<dkind, ntr, tstat, tconn, ext>>
  /\ UNCHANGED <<cfgvars, trvars, epvars, esvars, swvars>>
  /\ UNCHANGED chvars

\* The error ConnectionClosed receives. `defer t.trace.ConnectionClosed(t.target, err)`
\* evaluates its arguments when the defer statement runs, on entry to Close,
\* where the named result err is still nil; ret is what Close goes on to return.
ConnectionClosedArg(ret) == FALSE

\* mutant: the hook is emitted only when the close succeeded
TransportCloseLog_SilentOnError(t, c) ==
  <<Call(t, "Close")>> \o c.closes
    \o (IF c.err THEN <<>> ELSE <<Hook(t, "ConnectionClosed", 0, FALSE)>>)
    \o <<Ret(t, "Close", 0, c.err)>>

\* transportImpl.Close: dialer.Close(t.conn) if conn != nil; the deferred
\* ConnectionClosed hook runs as Close returns
TransportCloseLog(t, c) ==
  <<Call(t, "Close")>> \o c.closes
    \o <<Hook(t, "ConnectionClosed", 0, ConnectionClosedArg(c.err)),
         Ret(t, "Close", 0, c.err)>>

TransportClose(t) ==
  /\ tstat[t] = "live"
  /\ nops < MaxOps
  /\ \E errs \in CloseErrsOf(dkind, tconn[t], res[t]) :
       LET c == IF tconn[t] /= "nil"
                THEN DialerClose(dkind, tconn[t], t, res[t], ext, errs)
                ELSE CloseResult(FALSE, <<>>, res[t], ext)
       IN /\ res' = [res EXCEPT ![t] = c.res]
          /\ ext' = c.ext
          /\ log' = [log EXCEPT ![t] = @ \o TransportCloseLog(t, c)]
  /\ nops' = nops + 1
  /\ UNCHANGED <<dkind, ntr, tstat, tconn>>
  /\ UNCHANGED <<cfgvars, trvars, epvars, esvars, swvars>>
  /\ UNCHANGED chvars

\* ------------------------------------- package client: the session factory
\* the Config record: optional fields (timeouts), zero meaning "not set"
CfgFields == {"setupTimeout", "requestTimeout"}
Configs == [CfgFields -> 0..MaxCfgVal]

\* mergo's test for a field left unset: the zero value of its type
IsEmptyValue(v) == v = 0

\* mutant: the defaults override what the caller set
MergeConfig_DefaultsWin(dst, src) ==
  [f \in CfgFields |-> IF IsEmptyValue(src[f]) THEN dst[f] ELSE src[f]]

\* mergo.Merge(&dst, src): every empty field of dst takes src's value
MergeConfig(dst, src) ==
  [f \in CfgFields |-> IF IsEmptyValue(dst[f]) THEN src[f] ELSE dst[f]]

\* resolvedConfig := *cfg; mergo.Merge(&resolvedConfig, DefaultConfig):
\* the merge writes into the copy; *cfg and DefaultConfig are only read
ResolveConfig(cfg, def) ==
  [resolved |-> MergeConfig(cfg, def), cfg |-> cfg, def |-> def]

\* outcomes of the external NewSession(ctx, t, &resolvedConfig)
SessionOutcomes == {"ok", "fail"}

\* mutant: the Transport is not closed when NewSession fails
FactoryLog_NoClose(t, nt, ok, so, cl) ==
  <<Call(t, "NewRPCSessionFromDialer")>> \o nt
    \o (IF ok
        THEN <<Call(t, "NewSession"), Ret(t, "NewSession", 0, so = "fail")>>
        ELSE <<>>)
    \o <<Ret(t, "NewRPCSessionFromDialer", 0, ~ok \/ so = "fail")>>

\* NewRPCSessionFromDialer: NewTransport, and on its error return at once;
\* NewSession, and on its error t.Close() before the error is returned.
\* nt is what NewTransport logged, ok whether it succeeded, so the outcome of
\* NewSession, cl what t.Close() logged
FactoryLog(t, nt, ok, so, cl) ==
  <<Call(t, "NewRPCSessionFromDialer")>> \o nt
    \o (IF ok
        THEN <<Call(t, "NewSession"), Ret(t, "NewSession", 0, so = "fail")>>
               \o (IF so = "fail" THEN cl ELSE <<>>)
        ELSE <<>>)
    \o <<Ret(t, "NewRPCSessionFromDialer", 0, ~ok \/ so = "fail")>>

NewRPCSessionFromDialer ==
  /\ ntr < MaxTransports
  /\ nops < MaxOps
  /\ \E o \in DialOutcomes(dkind), so \in SessionOutcomes :
     \E errs \in CloseErrsOf(dkind,
                             IF \/ ClosesPartial(DialerDial(dkind, ntr + 1, o))
                                \/ (~DialerDial(dkind, ntr + 1, o).err /\ so = "fail")
                             THEN DialerDial(dkind, ntr + 1, o).conn ELSE "nil",
                             DialerDial(dkind, ntr + 1, o).res) :
       LET t == ntr + 1
           d == DialerDial(dkind, t, o)
           partial == ClosesPartial(d)
           c == DialerClose(dkind, d.conn, t, d.res, ext, errs)
           ok == ~d.err
           \* t.Close() after a failed NewSession
           tc == IF d.conn /= "nil"
                 THEN DialerClose(dkind, d.conn, t, d.res, ext, errs)
                 ELSE CloseResult(FALSE, <<>>, d.res, ext)
           closing == ok /\ so = "fail"
       IN /\ ntr' = t
          /\ tstat' = [tstat EXCEPT ![t] = IF d.err THEN "nil"
                                          ELSE IF so = "fail" THEN "dropped"
                                          ELSE "live"]
          /\ tconn' = [tconn EXCEPT ![t] = d.conn]
          /\ res' = [res EXCEPT ![t] = IF partial THEN c.res
                                      ELSE IF closing THEN tc.res ELSE d.res]
          /\ ext' = IF partial THEN c.ext ELSE IF closing THEN tc.ext ELSE ext
          /\ log' = [log EXCEPT ![t] =
                       @ \o FactoryLog(t, NewTransportLog(t, d, c), ok, so,
                                       TransportCloseLog(t, tc))]
  /\ LET m == ResolveConfig(cfgIn, defaultConfig)
     IN /\ cfgResolved' = <<m.resolved>>
        /\ cfgIn' = m.cfg
        /\ defaultConfig' = m.def
  /\ nops' = nops + 1
  /\ UNCHANGED <<dkind, trvars, epvars, esvars, swvars>>
  /\ UNCHANGED chvars

\* dialer.Close(nil) called directly on the Dialer
DialerCloseNil ==
  /\ nops < MaxOps
  /\ \E errs \in CloseErrsOf(dkind, "nil", NoRes) :
       LET c == DialerClose(dkind, "nil", 0, NoRes, ext, errs)
       IN /\ ext' = c.ext
          /\ log' = [log EXCEPT ![0] = @ \o <<Call(0, "Dialer.Close")>> \o c.closes
                                         \o <<Ret(0, "Dialer.Close", 0, c.err)>>]
  /\ nops' = nops + 1
  /\ UNCHANGED <<dkind, ntr, tstat, tconn, res>>
  /\ UNCHANGED <<cfgvars, trvars, epvars, esvars, swvars>>
  /\ UNCHANGED chvars

\* ========================================================= trace bundles
\* the components that report events, and the slots of their Trace type
TraceComps == {"SSHListener", "TLSListener", "CHSSHDialer", "CHTLSDialer", "TLSServer"}

TraceSlots(comp) ==
  CASE comp \in {"SSHListener", "TLSListener"} ->
         {"ListenStart", "AcceptDone", "SSHConnected", "SubsystemReady", "TLSConnected"}
    [] comp \in {"CHSSHDialer", "CHTLSDialer"} ->
         {"DialStart", "DialDone", "SSHConnected", "SubsystemReady", "TLSConnected",
          "AcceptStart", "AcceptDone"}
    [] OTHER ->
         {"Listened", "StartAccepting", "Accepted", "TLSHandshake", "ConnectionClosed"}

\* the slots a component invokes
InvokedSlots(comp) ==
  CASE comp = "SSHListener" -> {"ListenStart", "AcceptDone", "SSHConnected", "SubsystemReady"}
    [] comp = "TLSListener" -> {"ListenStart", "AcceptDone", "TLSConnected"}
    [] comp = "CHSSHDialer" -> {"DialStart", "DialDone", "SSHConnected", "SubsystemReady"}
    [] comp = "CHTLSDialer" -> {"DialStart", "DialDone", "TLSConnected"}
    [] OTHER -> {"Listened", "StartAccepting", "Accepted", "TLSHandshake"}

\* the listeners and the TLS server take their bundle from the context, the
\* Call Home dialers as an argument of New*DialerWithOptions
TraceRoute(comp) == IF comp \in {"CHSSHDialer", "CHTLSDialer"} THEN "opt" ELSE "ctx"

\* a *Trace: ptr is "nil", "noOpTrace" or "caller"; a slot is "unset" (a nil
\* func), "hook" (the caller's function) or "noop"
TracePtr(ptr, slots) == [ptr |-> ptr, slots |-> slots]
NilTrace(comp) == TracePtr("nil", [sl \in TraceSlots(comp) |-> "unset"])
noOpTrace(comp) == TracePtr("noOpTrace", [sl \in TraceSlots(comp) |-> "noop"])
CallerTraces(comp) ==
  {TracePtr("caller", b) : b \in [TraceSlots(comp) -> {"unset", "hook"}]}

\* what a caller can supply: has is whether a value is attached at all
Given(has, tr) == [has |-> has, tr |-> tr]
GivenTraces(comp) ==
  {Given(FALSE, NilTrace(comp)), Given(TRUE, NilTrace(comp))}
    \cup {Given(TRUE, tr) : tr \in CallerTraces(comp)}

\* mutant: the type assertion alone, without the nil test
ContextTrace_NoNilTest(comp, g) ==
  IF g.has THEN g.tr ELSE noOpTrace(comp)

\* ContextTrace / ContextTLSTrace:
\* if trace, ok := ctx.Value(key).(*Trace); ok && trace != nil { return trace }
\* return noOpTrace
ContextTrace(comp, g) ==
  IF g.has /\ g.tr.ptr /= "nil" THEN g.tr ELSE noOpTrace(comp)

\* New*DialerWithOptions: d.trace = noOpTrace; if trace != nil { d.trace = trace }
WithOptionsTrace(comp, g) ==
  IF g.has /\ g.tr.ptr /= "nil" THEN g.tr ELSE noOpTrace(comp)

\* the constructor of the component stores the bundle it will invoke
NewComponent ==
  /\ trHeld = <<>>
  /\ trHeld' = <<IF trRoute = "ctx" THEN ContextTrace(trComp, trGiven)
                 ELSE WithOptionsTrace(trComp, trGiven)>>
  /\ UNCHANGED <<trComp, trRoute, trGiven, trEmitted, trPanic>>
  /\ UNCHANGED <<clientvars, cfgvars, epvars, esvars, swvars>>
  /\ UNCHANGED chvars

\* calling a slot of the held bundle: a nil *Trace or a nil func panics
SlotCallable(tr, sl) == tr.ptr /= "nil" /\ tr.slots[sl] /= "unset"

\* d.trace.DialStart(...), l.trace.AcceptDone(...), s.trace.Accepted(...), ...
InvokeSlot(sl) ==
  /\ trHeld /= <<>> /\ ~trPanic
  /\ sl \in InvokedSlots(trComp) \ trEmitted
  /\ IF SlotCallable(trHeld[1], sl)
     THEN trEmitted' = trEmitted \cup {sl} /\ UNCHANGED trPanic
     ELSE trPanic' = TRUE /\ UNCHANGED trEmitted
  /\ UNCHANGED <<trComp, trRoute, trGiven, trHeld>>
  /\ UNCHANGED <<clientvars, cfgvars, epvars, esvars, swvars>>
  /\ UNCHANGED chvars

AllSlots == UNION {TraceSlots(comp) : comp \in TraceComps}

TraceIdle ==
  /\ trComp = "SSHListener"
  /\ trRoute = "ctx"
  /\ trGiven = Given(FALSE, NilTrace("SSHListener"))
  /\ trHeld = <<>>
  /\ trEmitted = {}
  /\ trPanic = FALSE

\* ======================================== listeners, servers, dialers: life cycle
MaxCalls == 3   \* Accept / Dial / Close calls and accept-loop rounds

Listeners == {"SSHListener", "TLSListener"}
Servers == {"TLSServer"}
CHDialers == {"CHSSHDialer", "CHTLSDialer"}
Endpoints == Listeners \cup Servers \cup CHDialers

ConnIds == 1..MaxCalls
NoConns == [c \in ConnIds |-> "none"]
Handed(conns) == {c \in ConnIds : conns[c] /= "none"}
NewConn(conns) == [conns EXCEPT ![Cardinality(Handed(conns)) + 1] = "open"]

\* an error value: its message and the error it wraps
NoErr == [msg |-> "", cause |-> ""]
BindErr == [msg |-> "listen tcp: bind: cannot assign requested address",
            cause |-> "bind"]

\* mutant: the cause formatted into the message instead of wrapped
WrapErr_DropsCause(msg, err) == [msg |-> msg, cause |-> ""]

\* fmt.Errorf("...: %w", err)
WrapErr(msg, err) == [msg |-> msg, cause |-> err.cause]

\* one entry of epLog: the call, the error it returned ("" is nil), the
\* connection it returned (0 is none)
Returned(op, err, conn) == [op |-> op, err |-> err, conn |-> conn]

\* NewSSHListener / NewTLSListener
NewListener ==
  /\ epKind \in Listeners /\ epObj = "none"
  /\ IF epBindable
     THEN /\ epSock' = "open"
          /\ epObj' = "live"
          /\ epErr' = NoErr
     ELSE /\ epObj' = "nil"
          /\ epErr' = WrapErr("callhome: failed to listen on", BindErr)
          /\ UNCHANGED epSock
  /\ UNCHANGED <<epKind, epBindable, epLoop, epConns, epLog>>
  /\ UNCHANGED epdvars
  /\ UNCHANGED <<clientvars, cfgvars, trvars, esvars, swvars>>
  /\ UNCHANGED chvars

\* NewServer: `go server.acceptConnections(factory)` comes after the
\* `if err != nil { return nil, err }`
NewServerLoop(bound) == IF bound THEN "running" ELSE "none"

\* tls NewServer
NewServer ==
  /\ epKind \in Servers /\ epObj = "none"
  /\ IF epBindable
     THEN /\ epSock' = "open"
          /\ epObj' = "live"
          /\ epErr' = NoErr
     ELSE /\ epObj' = "nil"
          /\ epErr' = BindErr
          /\ UNCHANGED epSock
  /\ epLoop' = NewServerLoop(epBindable)
  /\ UNCHANGED <<epKind, epBindable, epConns, epLog>>
  /\ UNCHANGED epdvars
  /\ UNCHANGED <<clientvars, cfgvars, trvars, esvars, swvars>>
  /\ UNCHANGED chvars

\* how one Accept can end: at listener.Accept(), at the handshake, at
\* client.NewSession(), at session.RequestSubsystem, or with a connection
AcceptOutcomes(kind, sock) ==
  IF sock /= "open" THEN {"tcp"}
  ELSE IF kind = "SSHListener" THEN {"tcp", "handshake", "session", "subsystem", "ok"}
  ELSE {"tcp", "handshake", "ok"}

AcceptErr(kind, outcome) ==
  CASE outcome = "tcp" -> "callhome: accept failed"
    [] outcome = "handshake" ->
         IF kind = "SSHListener" THEN "callhome: SSH client handshake failed"
         ELSE "callhome: TLS handshake failed"
    [] outcome = "session" -> "callhome: failed to create SSH session"
    [] outcome = "subsystem" -> "callhome: failed to request netconf subsystem"
    [] OTHER -> ""

\* mutant: a failed Accept gives the listener up
AcceptSock_ClosedOnError(sock, outcome) == IF outcome = "ok" THEN sock ELSE "closed"

\* the listening socket after Accept: no path of Accept touches l.listener
\* other than to call Accept on it
AcceptSock(sock, outcome) == sock

\* SSHListener.Accept / TLSListener.Accept, the whole call
ListenerAccept(outcome) ==
  /\ epKind \in Listeners /\ epObj = "live"
  /\ Len(epLog) < MaxCalls
  /\ outcome \in AcceptOutcomes(epKind, epSock)
  /\ epSock' = AcceptSock(epSock, outcome)
  /\ epConns' = IF outcome = "ok" THEN NewConn(epConns) ELSE epConns
  /\ epLog' = Append(epLog, Returned("Accept", AcceptErr(epKind, outcome),
                                     IF outcome = "ok"
                                     THEN Cardinality(Handed(epConns)) + 1 ELSE 0))
  /\ UNCHANGED <<epKind, epBindable, epObj, epErr, epLoop>>
  /\ UNCHANGED epdvars
  /\ UNCHANGED <<clientvars, cfgvars, trvars, esvars, swvars>>
  /\ UNCHANGED chvars

\* net.Listener.Close: an error when the socket is closed already
SockCloseErr(sock) == IF sock = "open" THEN "" ELSE "use of closed network connection"

\* SSHListener.Close / TLSListener.Close: return l.listener.Close();
\* Server.Close: _ = s.listener.Close()
EndpointClose ==
  /\ epKind \in Listeners \cup Servers /\ epObj = "live"
  /\ Len(epLog) < MaxCalls
  /\ epSock' = "closed"
  /\ epLog' = Append(epLog, Returned("Close",
                                     IF epKind \in Servers THEN "" ELSE SockCloseErr(epSock),
                                     0))
  /\ UNCHANGED <<epKind, epBindable, epObj, epErr, epLoop, epConns>>
  /\ UNCHANGED epdvars
  /\ UNCHANGED <<clientvars, cfgvars, trvars, esvars, swvars>>
  /\ UNCHANGED chvars

\* Server.acceptConnections, the goroutine blocked in s.listener.Accept():
\* an accept error ends the goroutine, a connection takes it to the handshake
ServerLoopOutcomes(sock) == IF sock /= "open" THEN {"tcp"} ELSE {"tcp", "ok"}

\* the connection the accept loop holds between Accept and the handshake
PendingConns(conns) == {c \in ConnIds : conns[c] = "pending"}

AcceptConnections(outcome) ==
  /\ epKind \in Servers /\ epLoop = "running"
  /\ Len(epLog) < MaxCalls
  /\ outcome \in ServerLoopOutcomes(epSock)
  /\ epLoop' = IF outcome = "tcp" THEN "returned" ELSE "handshaking"
  /\ epConns' = IF outcome = "ok"
                THEN [epConns EXCEPT ![Cardinality(Handed(epConns)) + 1] = "pending"]
                ELSE epConns
  /\ epLog' = Append(epLog, Returned("Accepted",
                                     IF outcome = "ok" THEN "" ELSE outcome,
                                     IF outcome = "ok"
                                     THEN Cardinality(Handed(epConns)) + 1 ELSE 0))
  /\ UNCHANGED <<epKind, epBindable, epObj, epErr, epSock>>
  /\ UNCHANGED epdvars
  /\ UNCHANGED <<clientvars, cfgvars, trvars, esvars, swvars>>
  /\ UNCHANGED chvars

\* mutant: a failed handshake ends the accept goroutine
AfterHandshake_ReturnsOnFailure(ok) == IF ok THEN "running" ELSE "returned"

\* where the loop goes after tlsConn.Handshake(): `continue` on failure, and
\* after `go func(c *tls.Conn) {...}(tlsConn)` the next iteration
AfterHandshake(ok) == "running"

\* Server.acceptConnections, tlsConn.Handshake() on the accepted connection
\* returns: on failure the connection is closed, on success it goes to a
\* handler goroutine of its own
ServerHandshake(ok) ==
  /\ epKind \in Servers /\ epLoop = "handshaking"
  /\ \E c \in PendingConns(epConns) :
       /\ epConns' = [epConns EXCEPT ![c] = IF ok THEN "open" ELSE "refused"]
       /\ epLog' = Append(epLog, Returned("TLSHandshake",
                                          IF ok THEN "" ELSE "handshake", c))
  /\ epLoop' = AfterHandshake(ok)
  /\ UNCHANGED <<epKind, epBindable, epObj, epErr, epSock>>
  /\ UNCHANGED epdvars
  /\ UNCHANGED <<clientvars, cfgvars, trvars, esvars, swvars>>
  /\ UNCHANGED chvars

\* the addresses a dialer can be given
Targets == {"192.0.2.1:4334", "192.0.2.2:4334"}

\* the arguments of a constructor: NewSSHDialer / NewTLSDialer ("plain") take
\* no NetDialer, New*DialerWithOptions ("options") takes one or nil
DialerArgs ==
  {a \in [ctor : {"plain", "options"}, target : Targets, netDialer : {"nil", "custom"}] :
     a.ctor = "plain" => a.netDialer = "nil"}
NoArgs == [ctor |-> "", target |-> "", netDialer |-> ""]
NoDialer == [target |-> "", netDialer |-> ""]

\* mutant: the target left out of the struct literal
NewCHDialer_NoTarget(a) ==
  [target |-> "",
   netDialer |-> IF a.ctor = "options" /\ a.netDialer /= "nil"
                 THEN a.netDialer ELSE "DefaultNetDialer"]

\* NewSSHDialer / NewTLSDialer: target, netDialer: DefaultNetDialer;
\* New*DialerWithOptions: if netDialer != nil { d.netDialer = netDialer }
NewCHDialer(a) ==
  [target |-> a.target,
   netDialer |-> IF a.ctor = "options" /\ a.netDialer /= "nil"
                 THEN a.netDialer ELSE "DefaultNetDialer"]

\* Target(): return d.target
Target(d) == d.target

\* mutant: the dial always made through the package default
DialContextCall_AlwaysDefault(d) ==
  [via |-> "DefaultNetDialer", network |-> "tcp", address |-> d.target]

\* d.netDialer.DialContext(ctx, "tcp", d.target)
DialContextCall(d) == [via |-> d.netDialer, network |-> "tcp", address |-> d.target]

\* server/callhome NewSSHDialer / NewTLSDialer / New*DialerWithOptions: cannot fail
NewDialer ==
  /\ epKind \in CHDialers /\ epObj = "none"
  /\ epObj' = "live"
  /\ epDialer' = NewCHDialer(epArgs)
  /\ UNCHANGED <<epKind, epBindable, epErr, epSock, epLoop, epConns, epLog,
                 epArgs, epDials>>
  /\ UNCHANGED <<clientvars, cfgvars, trvars, esvars, swvars>>
  /\ UNCHANGED chvars

\* how one Dial can end: at the TCP connect, at the handshake, in
\* handleChannels (SSH only), or with a connection
DialOutcomesCH(kind) ==
  IF kind = "CHSSHDialer" THEN {"tcp", "handshake", "channels", "ok"}
  ELSE {"tcp", "handshake", "ok"}

DialErrCH(kind, outcome) ==
  CASE outcome = "tcp" -> "callhome: failed to connect to client"
    [] outcome = "handshake" ->
         IF kind = "CHSSHDialer" THEN "callhome: SSH handshake failed"
         ELSE "callhome: TLS handshake failed"
    [] outcome = "channels" -> "callhome: no session channel received"
    [] OTHER -> ""

\* server/callhome SSHDialer.Dial / TLSDialer.Dial, the whole call
DialerDialCH(outcome) ==
  /\ epKind \in CHDialers /\ epObj = "live"
  /\ Len(epLog) < MaxCalls
  /\ outcome \in DialOutcomesCH(epKind)
  /\ epConns' = IF outcome = "ok" THEN NewConn(epConns) ELSE epConns
  /\ epLog' = Append(epLog, Returned("Dial", DialErrCH(epKind, outcome),
                                     IF outcome = "ok"
                                     THEN Cardinality(Handed(epConns)) + 1 ELSE 0))
  /\ epDials' = Append(epDials, DialContextCall(epDialer))
  /\ UNCHANGED <<epKind, epBindable, epObj, epErr, epSock, epLoop, epArgs, epDialer>>
  /\ UNCHANGED <<clientvars, cfgvars, trvars, esvars, swvars>>
  /\ UNCHANGED chvars

\* mutant: Close tears down what Dial produced
DialerCloseCH_ClosesConns(conns) ==
  [err |-> "", conns |-> [c \in ConnIds |-> IF conns[c] = "open" THEN "closed" ELSE conns[c]]]

\* func (d *SSHDialer) Close() error { return nil }, and the same for TLSDialer
DialerCloseCH(conns) == [err |-> "", conns |-> conns]

CHDialerClose ==
  /\ epKind \in CHDialers /\ epObj = "live"
  /\ Len(epLog) < MaxCalls
  /\ epConns' = DialerCloseCH(epConns).conns
  /\ epLog' = Append(epLog, Returned("Close", DialerCloseCH(epConns).err, 0))
  /\ UNCHANGED <<epKind, epBindable, epObj, epErr, epSock, epLoop>>
  /\ UNCHANGED epdvars
  /\ UNCHANGED <<clientvars, cfgvars, trvars, esvars, swvars>>
  /\ UNCHANGED chvars

\* Close on a connection Accept or Dial returned
EndpointConnClose(c) ==
  /\ epConns[c] = "open"
  /\ epConns' = [epConns EXCEPT ![c] = "closed"]
  /\ UNCHANGED <<epKind, epBindable, epObj, epErr, epSock, epLoop, epLog>>
  /\ UNCHANGED epdvars
  /\ UNCHANGED <<clientvars, cfgvars, trvars, esvars, swvars>>
  /\ UNCHANGED chvars

EndpointIdle ==
  /\ epKind = "SSHListener"
  /\ epBindable = TRUE
  /\ epObj = "none"
  /\ epErr = NoErr
  /\ epSock = "none"
  /\ epLoop = "none"
  /\ epConns = NoConns
  /\ epLog = <<>>
  /\ epArgs = NoArgs
  /\ epDialer = NoDialer
  /\ epDials = <<>>

\* ================================== one attempt of an establishment path
EstRes == [tcp |-> "none", client |-> "none", session |-> "none", deadline |-> "none"]

EstablishIdle ==
  /\ esPath = "client.TLSDialer.Dial"
  /\ esCtx = "none"
  /\ esPc = "start"
  /\ esRes = EstRes
  /\ esLog = <<>>

\* ===================================================== SSH stream wrappers
WrapperIdle ==
  /\ swKind = "sshConn"
  /\ swPipes = [reader |-> "none", writer |-> "none"]
  /\ swReqs = [reader |-> 0, writer |-> 0]
  /\ swLog = <<>>

\* ============================================================ Call Home
Sides == {"L", "D"}          \* L: listener (manager), D: dialer (device)
Other(side) == IF side = "L" THEN "D" ELSE "L"
Out(side) == IF side = "L" THEN "LtoD" ELSE "DtoL"
In(side) == IF side = "L" THEN "DtoL" ELSE "LtoD"

NoOwn == [tcp |-> "none", sec |-> "none", chan |-> "none",
          writer |-> "none", reader |-> "none", deadline |-> "none"]
NoRole == [tcp |-> "none", hs |-> "none"]

CHook(name, err) == [k |-> "hook", name |-> name, err |-> err]
CCls(name) == [k |-> "close", name |-> name, err |-> FALSE]

\* strings, as byte sequences
Netconf == <<"n", "e", "t", "c", "o", "n", "f">>
Sftp == <<"s", "f", "t", "p">>

\* the payload of a "subsystem" request: uint32 length, then the name
SubsystemPayload(name) == <<0, 0, 0, Len(name)>> \o name

\* channel types and channel requests an arbitrary SSH client may send
ChannelTypes == {"session", "direct-tcpip"}
RawRequests ==
  {[type |-> "subsystem", payload |-> q] :
     q \in {SubsystemPayload(Netconf), SubsystemPayload(Sftp), <<0, 0>>, Netconf}}
  \cup {[type |-> "exec", payload |-> q] : q \in {SubsystemPayload(Netconf), <<>>}}

\* mutant: the dialer wraps its outbound connection as a client
DialerHandshakeRole_Client == "client"

\* the secure-handshake role each side takes
ListenerHandshakeRole == "client"     \* ssh.NewClientConn / tls.Client
DialerHandshakeRole == "server"       \* ssh.NewServerConn / tls.Server

\* ctx.Deadline() reports a deadline, passed or not
HasDeadline(c) == c \in {"deadline", "expired"}

\* ----------------------------------- server/callhome: SSHDialer, TLSDialer
\* req.Payload[4:]; slicing a payload shorter than 4 bytes panics
PayloadFrom4(q) == SubSeq(q, 5, Len(q))
SlicePanics(req) == req.type = "subsystem" /\ Len(req.payload) < 4

\* mutant: the payload compared without skipping its length prefix
IsNetconfSubsystem_NoPrefixSkip(req) ==
  req.type = "subsystem" /\ req.payload = Netconf

\* req.Type == "subsystem" && string(req.Payload[4:]) == "netconf"
IsNetconfSubsystem(req) ==
  req.type = "subsystem" /\ PayloadFrom4(req.payload) = Netconf

\* The error the deferred DialDone receives when Dial ends in handleChannels:
\* `return d.handleChannels(sshConn, chans)` does not assign Dial's local err,
\* which still holds the nil of the successful handshake; ret is what Dial returns.
HandleChannelsDialDoneErr(ret) == FALSE

\* what the dialer answered: to a channel-open of type ty (Accept / Reject), or
\* to a channel request req (req.Reply)
NoReq == [type |-> "", payload |-> <<>>]
OpenReply(ty, ok, why) == [k |-> "open", ty |-> ty, req |-> NoReq, ok |-> ok, why |-> why]
ReqReply(req, ok) == [k |-> "req", ty |-> "", req |-> req, ok |-> ok, why |-> ""]

\* the errors Dial returns
ErrDialTCP == "callhome: failed to connect to client"
ErrDialHandshake == IF proto = "ssh" THEN "callhome: SSH handshake failed"
                    ELSE "callhome: TLS handshake failed"
ErrAcceptChannel == "callhome: failed to accept channel"
ErrNoSubsystem == "callhome: netconf subsystem not requested"
ErrNoSession == "callhome: no session channel received"

DAlive == gpc /= "panic"

\* Dial up to the TCP connection: DialStart, netDialer.DialContext
DialTCPFails ==
  \/ ctx["D"] = "expired"
  \/ lsock = "closed" /\ scen /= "raw"
  \/ scen /= "callhome"

DialTCPSucceeds == ctx["D"] /= "expired" /\ (scen = "raw" \/ lsock = "open")

DialStart ==
  /\ dpc = "idle"
  /\ \/ /\ DialTCPSucceeds
        /\ tcp' = IF scen = "raw" THEN "accepted" ELSE "backlog"
        /\ role' = [role EXCEPT !["D"] = [tcp |-> "initiator", hs |-> DialerHandshakeRole],
                                !["L"] = IF scen = "raw"
                                         THEN [tcp |-> "acceptor", hs |-> "client"]
                                         ELSE @]
        /\ own' = [own EXCEPT !["D"].tcp = "open",
                              !["D"].deadline =
                                 IF proto = "tls" /\ HasDeadline(ctx["D"])
                                 THEN "set" ELSE "none"]
        /\ clog' = [clog EXCEPT !["D"] = @ \o <<CHook("DialStart", FALSE)>>]
        /\ dpc' = "handshake"
        /\ UNCHANGED dret
     \/ /\ DialTCPFails
        /\ clog' = [clog EXCEPT !["D"] =
                      @ \o <<CHook("DialStart", FALSE), CHook("DialDone", TRUE)>>]
        /\ dpc' = "done"
        /\ dret' = ErrDialTCP
        /\ UNCHANGED <<tcp, role, own>>
  /\ UNCHANGED <<proto, scen, compat, ctx, hs, apc, gpc, aret, chans, requests,
                 closed, subsystemChan, replies, wire, sent, rcvd, lsock, peerSent>>
  /\ UNCHANGED tvars

\* the handshake of `side` ends in failure: the negotiation failed, the peer
\* is gone, or (TLS) the deadline set on the connection has passed
\* mutant: the handshake gives up when the context expires, deadline or not
HandshakeFails_ObservesCtx(side) ==
  \/ hs = "fail"
  \/ tcp = "reset"
  \/ own[Other(side)].tcp = "closed"
  \/ ctx[side] = "expired"

HandshakeFails(side) ==
  \/ hs = "fail"
  \/ tcp = "reset"
  \/ own[Other(side)].tcp = "closed"
  \/ own[side].deadline = "set" /\ ctx[side] = "expired"

\* Dial, the secure handshake as server: ssh.NewServerConn / tls.Server + Handshake
DialHandshake ==
  /\ dpc = "handshake"
  /\ \/ /\ hs = "ok"
        /\ proto = "ssh"
        /\ own' = [own EXCEPT !["D"].sec = "open"]
        /\ clog' = [clog EXCEPT !["D"] = @ \o <<CHook("SSHConnected", FALSE)>>]
        /\ dpc' = "chans"
        /\ UNCHANGED dret
     \/ /\ hs = "ok"
        /\ proto = "tls"
        /\ own' = [own EXCEPT !["D"].sec = "open", !["D"].deadline = "none"]
        /\ clog' = [clog EXCEPT !["D"] =
                      @ \o <<CHook("TLSConnected", FALSE), CHook("DialDone", FALSE)>>]
        /\ dpc' = "done"
        /\ dret' = "conn"
     \/ /\ HandshakeFails("D")
        /\ own' = [own EXCEPT !["D"].tcp = "closed"]
        /\ clog' = [clog EXCEPT !["D"] = @ \o <<CCls("tcp"), CHook("DialDone", TRUE)>>]
        /\ dpc' = "done"
        /\ dret' = ErrDialHandshake
  /\ UNCHANGED <<proto, scen, compat, ctx, tcp, hs, role, apc, gpc, aret, chans,
                 requests, closed, subsystemChan, replies, wire, sent, rcvd,
                 lsock, peerSent>>
  /\ UNCHANGED tvars

\* handleChannels: a channel-open of another type is rejected, the loop goes on
\* mutant: a rejected channel-open ends the negotiation
HandleChannelsReject_Ends ==
  /\ dpc = "chans" /\ DAlive
  /\ chans /= <<>> /\ Head(chans) /= "session"
  /\ replies' = Append(replies, OpenReply(Head(chans), FALSE, "unknown channel type"))
  /\ chans' = Tail(chans)
  /\ dpc' = "done"
  /\ dret' = ErrNoSession
  /\ UNCHANGED <<proto, scen, compat, ctx, tcp, hs, role, apc, gpc, aret,
                 requests, closed, subsystemChan, own, clog, wire, sent, rcvd,
                 lsock, peerSent>>
  /\ UNCHANGED tvars

\* mutant: channel-opens still answered after the session channel was taken
HandleChannelsReject_AfterSession ==
  /\ dpc \in {"chans", "wait", "done"} /\ DAlive
  /\ chans /= <<>> /\ Head(chans) /= "session"
  /\ replies' = Append(replies, OpenReply(Head(chans), FALSE, "unknown channel type"))
  /\ chans' = Tail(chans)
  /\ UNCHANGED <<proto, scen, compat, ctx, tcp, hs, role, apc, dpc, gpc, aret, dret,
                 requests, closed, subsystemChan, own, clog, wire, sent, rcvd,
                 lsock, peerSent>>
  /\ UNCHANGED tvars

HandleChannelsReject ==
  /\ dpc = "chans" /\ DAlive
  /\ chans /= <<>> /\ Head(chans) /= "session"
  /\ replies' = Append(replies, OpenReply(Head(chans), FALSE, "unknown channel type"))
  /\ chans' = Tail(chans)
  /\ UNCHANGED <<proto, scen, compat, ctx, tcp, hs, role, apc, dpc, gpc, aret, dret,
                 requests, closed, subsystemChan, own, clog, wire, sent, rcvd,
                 lsock, peerSent>>
  /\ UNCHANGED tvars

\* handleChannels: a "session" channel-open: Accept it and start the goroutine
\* that services its requests, or return the Accept error
HandleChannelsSession ==
  /\ dpc = "chans" /\ DAlive
  /\ chans /= <<>> /\ Head(chans) = "session"
  /\ chans' = Tail(chans)
  /\ \/ /\ replies' = Append(replies, OpenReply(Head(chans), TRUE, ""))
        /\ own' = [own EXCEPT !["D"].chan = "open"]
        /\ gpc' = "outer"
        /\ dpc' = "wait"
        /\ UNCHANGED <<dret, clog>>
     \/ /\ scen /= "callhome"
        /\ clog' = [clog EXCEPT !["D"] =
                      @ \o <<CHook("DialDone", HandleChannelsDialDoneErr(TRUE))>>]
        /\ dpc' = "done"
        /\ dret' = ErrAcceptChannel
        /\ UNCHANGED <<replies, own, gpc>>
  /\ UNCHANGED <<proto, scen, compat, ctx, tcp, hs, role, apc, aret, requests,
                 closed, subsystemChan, wire, sent, rcvd, lsock, peerSent>>
  /\ UNCHANGED tvars

\* mutant: the end of the channel-open stream reported as a missing subsystem
HandleChannelsNone_WrongError ==
  /\ dpc = "chans" /\ DAlive
  /\ chans = <<>> /\ closed.chans
  /\ clog' = [clog EXCEPT !["D"] =
                @ \o <<CHook("DialDone", HandleChannelsDialDoneErr(TRUE))>>]
  /\ dpc' = "done"
  /\ dret' = ErrNoSubsystem
  /\ UNCHANGED <<proto, scen, compat, ctx, tcp, hs, role, apc, gpc, aret, chans,
                 requests, closed, subsystemChan, replies, own, wire, sent, rcvd,
                 lsock, peerSent>>
  /\ UNCHANGED tvars

\* handleChannels: the channel-open stream ended: "no session channel received"
HandleChannelsNone ==
  /\ dpc = "chans" /\ DAlive
  /\ chans = <<>> /\ closed.chans
  /\ clog' = [clog EXCEPT !["D"] =
                @ \o <<CHook("DialDone", HandleChannelsDialDoneErr(TRUE))>>]
  /\ dpc' = "done"
  /\ dret' = ErrNoSession
  /\ UNCHANGED <<proto, scen, compat, ctx, tcp, hs, role, apc, gpc, aret, chans,
                 requests, closed, subsystemChan, replies, own, wire, sent, rcvd,
                 lsock, peerSent>>
  /\ UNCHANGED tvars

\* mutant: the value received from subsystemChan is not looked at
HandleChannelsWait_IgnoresOk ==
  /\ dpc = "wait" /\ DAlive
  /\ subsystemChan /= <<>>
  /\ subsystemChan' = Tail(subsystemChan)
  /\ clog' = [clog EXCEPT !["D"] =
                @ \o <<CHook("SubsystemReady", FALSE),
                       CHook("DialDone", HandleChannelsDialDoneErr(FALSE))>>]
  /\ dret' = "conn"
  /\ dpc' = "done"
  /\ UNCHANGED <<proto, scen, compat, ctx, tcp, hs, role, apc, gpc, aret, chans,
                 requests, closed, replies, own, wire, sent, rcvd, lsock, peerSent>>
  /\ UNCHANGED tvars

\* mutant: SubsystemReady emitted after the deferred DialDone
HandleChannelsWait_ReadyAfterDone ==
  /\ dpc = "wait" /\ DAlive
  /\ subsystemChan /= <<>>
  /\ subsystemChan' = Tail(subsystemChan)
  /\ IF Head(subsystemChan)
     THEN /\ clog' = [clog EXCEPT !["D"] =
                        @ \o <<CHook("DialDone", HandleChannelsDialDoneErr(FALSE)),
                               CHook("SubsystemReady", FALSE)>>]
          /\ dret' = "conn"
          /\ UNCHANGED own
     ELSE /\ own' = [own EXCEPT !["D"].chan = "closed"]
          /\ clog' = [clog EXCEPT !["D"] =
                        @ \o <<CCls("chan"),
                               CHook("DialDone", HandleChannelsDialDoneErr(TRUE))>>]
          /\ dret' = ErrNoSubsystem
  /\ dpc' = "done"
  /\ UNCHANGED <<proto, scen, compat, ctx, tcp, hs, role, apc, gpc, aret, chans,
                 requests, closed, replies, wire, sent, rcvd, lsock, peerSent>>
  /\ UNCHANGED tvars

\* handleChannels: ok := <-subsystemChan
HandleChannelsWait ==
  /\ dpc = "wait" /\ DAlive
  /\ subsystemChan /= <<>>
  /\ subsystemChan' = Tail(subsystemChan)
  /\ IF Head(subsystemChan)
     THEN /\ clog' = [clog EXCEPT !["D"] =
                        @ \o <<CHook("SubsystemReady", FALSE),
                               CHook("DialDone", HandleChannelsDialDoneErr(FALSE))>>]
          /\ dret' = "conn"
          /\ UNCHANGED own
     ELSE /\ own' = [own EXCEPT !["D"].chan = "closed"]
          /\ clog' = [clog EXCEPT !["D"] =
                        @ \o <<CCls("chan"),
                               CHook("DialDone", HandleChannelsDialDoneErr(TRUE))>>]
          /\ dret' = ErrNoSubsystem
  /\ dpc' = "done"
  /\ UNCHANGED <<proto, scen, compat, ctx, tcp, hs, role, apc, gpc, aret, chans,
                 requests, closed, replies, wire, sent, rcvd, lsock, peerSent>>
  /\ UNCHANGED tvars

\* capacity of subsystemChan: make(chan bool, 1)
SubsystemChanCap == 1

\* the goroutine, outer loop: one request before the netconf subsystem request
ServeRequest ==
  /\ gpc = "outer"
  /\ requests /= <<>>
  /\ requests' = Tail(requests)
  /\ LET req == Head(requests)
     IN IF SlicePanics(req)
        THEN /\ gpc' = "panic"
             /\ UNCHANGED <<replies, subsystemChan>>
        ELSE IF IsNetconfSubsystem(req)
        THEN /\ Len(subsystemChan) < SubsystemChanCap
             /\ replies' = Append(replies, ReqReply(req, TRUE))
             /\ subsystemChan' = Append(subsystemChan, TRUE)
             /\ gpc' = "inner"
        ELSE /\ replies' = Append(replies, ReqReply(req, FALSE))
             /\ UNCHANGED <<gpc, subsystemChan>>
  /\ UNCHANGED <<proto, scen, compat, ctx, tcp, hs, role, apc, dpc, aret, dret,
                 chans, closed, own, clog, wire, sent, rcvd, lsock, peerSent>>
  /\ UNCHANGED tvars

\* the goroutine, outer loop: the request stream ended without the request
ServeEnd ==
  /\ gpc = "outer"
  /\ requests = <<>> /\ closed.requests
  /\ Len(subsystemChan) < SubsystemChanCap
  /\ subsystemChan' = Append(subsystemChan, FALSE)
  /\ gpc' = "done"
  /\ UNCHANGED <<proto, scen, compat, ctx, tcp, hs, role, apc, dpc, aret, dret,
                 chans, requests, closed, replies, own, clog, wire, sent, rcvd,
                 lsock, peerSent>>
  /\ UNCHANGED tvars

\* mutant: the inner loop grants later requests
ServeLater_GrantsAgain ==
  /\ gpc = "inner"
  /\ requests /= <<>>
  /\ requests' = Tail(requests)
  /\ replies' = Append(replies, ReqReply(Head(requests), TRUE))
  /\ UNCHANGED <<proto, scen, compat, ctx, tcp, hs, role, apc, dpc, gpc, aret, dret,
                 chans, closed, subsystemChan, own, clog, wire, sent, rcvd,
                 lsock, peerSent>>
  /\ UNCHANGED tvars

\* the goroutine, inner loop: every later request is refused
ServeLater ==
  /\ gpc = "inner"
  /\ requests /= <<>>
  /\ requests' = Tail(requests)
  /\ replies' = Append(replies, ReqReply(Head(requests), FALSE))
  /\ UNCHANGED <<proto, scen, compat, ctx, tcp, hs, role, apc, dpc, gpc, aret, dret,
                 chans, closed, subsystemChan, own, clog, wire, sent, rcvd,
                 lsock, peerSent>>
  /\ UNCHANGED tvars

\* the goroutine, inner loop: the request stream ended
ServeLaterEnd ==
  /\ gpc = "inner"
  /\ requests = <<>> /\ closed.requests
  /\ gpc' = "done"
  /\ UNCHANGED <<proto, scen, compat, ctx, tcp, hs, role, apc, dpc, aret, dret,
                 chans, requests, closed, subsystemChan, replies, own, clog,
                 wire, sent, rcvd, lsock, peerSent>>
  /\ UNCHANGED tvars

\* -------------------------------- environment: the libraries and the peer
RepliesOf(kind) ==
  LET IsKind(r) == r.k = kind
  IN SelectSeq(replies, IsKind)

Complementary == {role["L"].hs, role["D"].hs} = {"client", "server"}

\* the two handshakes meet: they complete when one side speaks as client, the
\* other as server, and the configurations are compatible
Handshake ==
  /\ hs = "none"
  /\ dpc = "handshake"
  /\ scen = "raw" \/ apc = "handshake"
  /\ hs' \in (IF compat /\ Complementary THEN {"ok"} ELSE {"fail"})
             \cup (IF scen = "faulty" THEN {"fail"} ELSE {})
  /\ UNCHANGED <<proto, scen, compat, ctx, tcp, role, apc, dpc, gpc, aret, dret,
                 chans, requests, closed, subsystemChan, replies, own, clog,
                 wire, sent, rcvd, lsock, peerSent>>
  /\ UNCHANGED tvars

\* a context deadline passes
Expire(side) ==
  /\ scen /= "callhome"
  /\ scen = "raw" => side = "D"
  /\ ctx[side] = "deadline"
  /\ ctx' = [ctx EXCEPT ![side] = "expired"]
  /\ UNCHANGED <<proto, scen, compat, tcp, hs, role, apc, dpc, gpc, aret, dret,
                 chans, requests, closed, subsystemChan, replies, own, clog,
                 wire, sent, rcvd, lsock, peerSent>>
  /\ UNCHANGED tvars

\* an arbitrary SSH client: opens channels, sends requests, closes
RawOpen(ty) ==
  /\ scen = "raw" /\ hs = "ok"
  /\ ~closed.chans
  /\ peerSent.opens < MaxOpens
  /\ chans' = Append(chans, ty)
  /\ peerSent' = [peerSent EXCEPT !.opens = @ + 1]
  /\ UNCHANGED <<proto, scen, compat, ctx, tcp, hs, role, apc, dpc, gpc, aret, dret,
                 requests, closed, subsystemChan, replies, own, clog,
                 wire, sent, rcvd, lsock>>
  /\ UNCHANGED tvars

RawRequest(req) ==
  /\ scen = "raw" /\ own["D"].chan = "open"
  /\ ~closed.requests
  /\ peerSent.reqs < MaxReqs
  /\ requests' = Append(requests, req)
  /\ peerSent' = [peerSent EXCEPT !.reqs = @ + 1]
  /\ UNCHANGED <<proto, scen, compat, ctx, tcp, hs, role, apc, dpc, gpc, aret, dret,
                 chans, closed, subsystemChan, replies, own, clog,
                 wire, sent, rcvd, lsock>>
  /\ UNCHANGED tvars

RawCloseChannel ==
  /\ scen = "raw" /\ own["D"].chan /= "none"
  /\ ~closed.requests
  /\ closed' = [closed EXCEPT !.requests = TRUE]
  /\ UNCHANGED <<proto, scen, compat, ctx, tcp, hs, role, apc, dpc, gpc, aret, dret,
                 chans, requests, subsystemChan, replies, own, clog,
                 wire, sent, rcvd, lsock, peerSent>>
  /\ UNCHANGED tvars

RawCloseConn ==
  /\ scen = "raw" /\ hs = "ok"
  /\ ~closed.chans
  /\ closed' = [chans |-> TRUE, requests |-> TRUE]
  /\ UNCHANGED <<proto, scen, compat, ctx, tcp, hs, role, apc, dpc, gpc, aret, dret,
                 chans, requests, subsystemChan, replies, own, clog,
                 wire, sent, rcvd, lsock, peerSent>>
  /\ UNCHANGED tvars

\* ------------------------------ client/callhome: SSHListener, TLSListener
\* the errors Accept returns
ErrAccept == "callhome: accept failed"
ErrAcceptHandshake == IF proto = "ssh" THEN "callhome: SSH client handshake failed"
                      ELSE "callhome: TLS handshake failed"
ErrAcceptSession == "callhome: failed to create SSH session"
ErrAcceptSubsystem == "callhome: failed to request netconf subsystem"

\* the subsystem the listener requests: session.RequestSubsystem("netconf")
ListenerSubsystem == Netconf

LAlive == scen /= "raw"

\* Accept is called and blocks in listener.Accept()
AcceptStart ==
  /\ LAlive /\ apc = "idle"
  /\ apc' = "accept"
  /\ UNCHANGED <<proto, scen, compat, ctx, tcp, hs, role, dpc, gpc, aret, dret,
                 chans, requests, closed, subsystemChan, replies, own, clog,
                 wire, sent, rcvd, lsock, peerSent>>
  /\ UNCHANGED tvars

\* mutant: the wait for a connection ends when the context has expired
AcceptTCP_ObservesCtx ==
  /\ LAlive /\ apc = "accept"
  /\ \/ /\ tcp = "backlog" /\ lsock = "open"
        /\ tcp' = "accepted"
        /\ role' = [role EXCEPT !["L"] = [tcp |-> "acceptor", hs |-> ListenerHandshakeRole]]
        /\ own' = [own EXCEPT !["L"].tcp = "open",
                              !["L"].deadline =
                                 IF proto = "tls" /\ HasDeadline(ctx["L"])
                                 THEN "set" ELSE "none"]
        /\ clog' = [clog EXCEPT !["L"] = @ \o <<CHook("AcceptDone", FALSE)>>]
        /\ apc' = "handshake"
        /\ UNCHANGED aret
     \/ /\ lsock = "closed" \/ (scen = "faulty" /\ tcp = "backlog") \/ ctx["L"] = "expired"
        /\ clog' = [clog EXCEPT !["L"] = @ \o <<CHook("AcceptDone", TRUE)>>]
        /\ apc' = "done"
        /\ aret' = ErrAccept
        /\ UNCHANGED <<tcp, role, own>>
  /\ UNCHANGED <<proto, scen, compat, ctx, hs, dpc, gpc, dret, chans, requests,
                 closed, subsystemChan, replies, wire, sent, rcvd, lsock, peerSent>>
  /\ UNCHANGED tvars

\* listener.Accept() returns: a connection, or an error. The blocking accept
\* comes back when a connection is there (which it may fail to take) or when
\* the listening socket is closed.
AcceptTCP ==
  /\ LAlive /\ apc = "accept"
  /\ \/ /\ tcp = "backlog" /\ lsock = "open"
        /\ tcp' = "accepted"
        /\ role' = [role EXCEPT !["L"] = [tcp |-> "acceptor", hs |-> ListenerHandshakeRole]]
        /\ own' = [own EXCEPT !["L"].tcp = "open",
                              !["L"].deadline =
                                 IF proto = "tls" /\ HasDeadline(ctx["L"])
                                 THEN "set" ELSE "none"]
        /\ clog' = [clog EXCEPT !["L"] = @ \o <<CHook("AcceptDone", FALSE)>>]
        /\ apc' = "handshake"
        /\ UNCHANGED aret
     \/ /\ lsock = "closed" \/ (scen = "faulty" /\ tcp = "backlog")
        /\ clog' = [clog EXCEPT !["L"] = @ \o <<CHook("AcceptDone", TRUE)>>]
        /\ apc' = "done"
        /\ aret' = ErrAccept
        /\ UNCHANGED <<tcp, role, own>>
  /\ UNCHANGED <<proto, scen, compat, ctx, hs, dpc, gpc, dret, chans, requests,
                 closed, subsystemChan, replies, wire, sent, rcvd, lsock, peerSent>>
  /\ UNCHANGED tvars

\* Accept, the secure handshake as client: ssh.NewClientConn (then NewSession
\* sends the "session" channel-open) / tls.Client + Handshake
AcceptHandshake ==
  /\ LAlive /\ apc = "handshake"
  /\ \/ /\ hs = "ok"
        /\ proto = "ssh"
        /\ own' = [own EXCEPT !["L"].sec = "open"]
        /\ clog' = [clog EXCEPT !["L"] = @ \o <<CHook("SSHConnected", FALSE)>>]
        /\ chans' = Append(chans, "session")
        /\ apc' = "newsession"
        /\ UNCHANGED aret
     \/ /\ hs = "ok"
        /\ proto = "tls"
        /\ own' = [own EXCEPT !["L"].sec = "open", !["L"].deadline = "none"]
        /\ clog' = [clog EXCEPT !["L"] = @ \o <<CHook("TLSConnected", FALSE)>>]
        /\ apc' = "done"
        /\ aret' = "conn"
        /\ UNCHANGED chans
     \/ /\ HandshakeFails("L")
        /\ own' = [own EXCEPT !["L"].tcp = "closed"]
        /\ clog' = [clog EXCEPT !["L"] = @ \o <<CCls("tcp")>>]
        /\ apc' = "done"
        /\ aret' = ErrAcceptHandshake
        /\ UNCHANGED chans
  /\ UNCHANGED <<proto, scen, compat, ctx, tcp, hs, role, dpc, gpc, dret, requests,
                 closed, subsystemChan, replies, wire, sent, rcvd, lsock, peerSent>>
  /\ UNCHANGED tvars

\* the peer of the listener is gone, or the environment fails the call
ListenerCallFails(kind) ==
  \/ RepliesOf(kind) /= <<>> /\ ~Head(RepliesOf(kind)).ok
  \/ own["D"].tcp = "closed"
  \/ scen = "faulty"

\* Accept, client.NewSession() returns; on success RequestSubsystem("netconf")
\* sends the request, on failure the client is closed
AcceptSession ==
  /\ LAlive /\ apc = "newsession"
  /\ \/ /\ RepliesOf("open") /= <<>> /\ Head(RepliesOf("open")).ok
        /\ own' = [own EXCEPT !["L"].chan = "open"]
        /\ requests' = Append(requests, [type |-> "subsystem",
                                         payload |-> SubsystemPayload(ListenerSubsystem)])
        /\ apc' = "subsystem"
        /\ UNCHANGED <<aret, clog, closed>>
     \/ /\ ListenerCallFails("open")
        /\ own' = [own EXCEPT !["L"].sec = "closed", !["L"].tcp = "closed"]
        /\ clog' = [clog EXCEPT !["L"] = @ \o <<CCls("sec")>>]
        /\ closed' = [chans |-> TRUE, requests |-> TRUE]
        /\ apc' = "done"
        /\ aret' = ErrAcceptSession
        /\ UNCHANGED requests
  /\ UNCHANGED <<proto, scen, compat, ctx, tcp, hs, role, dpc, gpc, dret, chans,
                 subsystemChan, replies, wire, sent, rcvd, lsock, peerSent>>
  /\ UNCHANGED tvars

\* Accept, session.RequestSubsystem returns; on failure the session, then the
\* client, are closed
AcceptSubsystem ==
  /\ LAlive /\ apc = "subsystem"
  /\ \/ /\ RepliesOf("req") /= <<>> /\ Head(RepliesOf("req")).ok
        /\ clog' = [clog EXCEPT !["L"] = @ \o <<CHook("SubsystemReady", FALSE)>>]
        /\ apc' = "done"
        /\ aret' = "conn"
        /\ UNCHANGED <<own, closed>>
     \/ /\ ListenerCallFails("req")
        /\ own' = [own EXCEPT !["L"].chan = "closed", !["L"].sec = "closed",
                              !["L"].tcp = "closed"]
        /\ clog' = [clog EXCEPT !["L"] = @ \o <<CCls("chan"), CCls("sec")>>]
        /\ closed' = [chans |-> TRUE, requests |-> TRUE]
        /\ apc' = "done"
        /\ aret' = ErrAcceptSubsystem
  /\ UNCHANGED <<proto, scen, compat, ctx, tcp, hs, role, dpc, gpc, dret, chans,
                 requests, subsystemChan, replies, wire, sent, rcvd, lsock, peerSent>>
  /\ UNCHANGED tvars

\* mutant: Close also closes the connection Accept handed out
ListenerClose_ClosesAccepted ==
  /\ scen = "faulty" /\ lsock = "open"
  /\ lsock' = "closed"
  /\ tcp' = IF tcp = "backlog" THEN "reset" ELSE tcp
  /\ own' = [own EXCEPT !["L"].tcp = IF @ = "open" THEN "closed" ELSE @]
  /\ UNCHANGED <<proto, scen, compat, ctx, hs, role, apc, dpc, gpc, aret, dret,
                 chans, requests, closed, subsystemChan, replies, clog,
                 wire, sent, rcvd, peerSent>>
  /\ UNCHANGED tvars

\* SSHListener.Close / TLSListener.Close: listener.Close()
ListenerClose ==
  /\ scen = "faulty" /\ lsock = "open"
  /\ lsock' = "closed"
  /\ tcp' = IF tcp = "backlog" THEN "reset" ELSE tcp
  /\ UNCHANGED <<proto, scen, compat, ctx, hs, role, apc, dpc, gpc, aret, dret,
                 chans, requests, closed, subsystemChan, replies, own, clog,
                 wire, sent, rcvd, peerSent>>
  /\ UNCHANGED tvars

\* ------------------------------------------ the streams Accept / Dial return
RetOf(side) == IF side = "L" THEN aret ELSE dret

\* the bytes a Write of n bytes carries: the next n of the direction
NextBytes(d, n) == [i \in 1..n |-> Len(sent[d]) + i]

Min(a, b) == IF a < b THEN a ELSE b

\* whether the stream of `side` opens a pipe on first use (client sshCallhomeConn)
LazyPipes(side) == side = "L" /\ proto = "ssh"

\* what the stream hands to the wire on Write(p): c.writer.Write(p) /
\* c.channel.Write(p) / tls.Conn.Write(p)
StreamWrite(w, bytes) == w \o bytes

\* what Read(p) takes off the wire: the first n bytes there
StreamRead(w, n) == [got |-> SubSeq(w, 1, n), rest |-> SubSeq(w, n + 1, Len(w))]

\* Write on a returned stream
Write(side, n) ==
  /\ RetOf(side) = "conn"
  /\ Len(sent[Out(side)]) + n <= MaxBytes
  /\ \/ /\ wire' = [wire EXCEPT ![Out(side)] = StreamWrite(@, NextBytes(Out(side), n))]
        /\ sent' = [sent EXCEPT ![Out(side)] = @ \o NextBytes(Out(side), n)]
        /\ own' = IF LazyPipes(side) THEN [own EXCEPT ![side].writer = "open"] ELSE own
     \/ /\ LazyPipes(side) /\ own[side].writer = "none" /\ scen = "faulty"
        /\ UNCHANGED <<wire, sent, own>>
  /\ UNCHANGED <<proto, scen, compat, ctx, tcp, hs, role, apc, dpc, gpc, aret, dret,
                 chans, requests, closed, subsystemChan, replies, clog, rcvd,
                 lsock, peerSent>>
  /\ UNCHANGED tvars

\* Read on a returned stream into a buffer of len bytes
Read(side, len) ==
  /\ RetOf(side) = "conn"
  /\ \/ /\ wire[In(side)] /= <<>>
        /\ LET r == StreamRead(wire[In(side)], Min(len, Len(wire[In(side)])))
           IN /\ wire' = [wire EXCEPT ![In(side)] = r.rest]
              /\ rcvd' = [rcvd EXCEPT ![In(side)] = @ \o r.got]
        /\ own' = IF LazyPipes(side) THEN [own EXCEPT ![side].reader = "open"] ELSE own
     \/ /\ LazyPipes(side) /\ own[side].reader = "none" /\ scen = "faulty"
        /\ UNCHANGED <<wire, rcvd, own>>
  /\ UNCHANGED <<proto, scen, compat, ctx, tcp, hs, role, apc, dpc, gpc, aret, dret,
                 chans, requests, closed, subsystemChan, replies, clog, sent,
                 lsock, peerSent>>
  /\ UNCHANGED tvars

\* ------------------------------------- one SSH stream wrapper, call by call
WrapperKinds == {"sshConn", "sshSessionConn", "sshCallhomeConn"}

\* `if c.reader == nil` / `if c.writer == nil`: the call asks the session for
\* the pipe of its direction
PipeRequested(r, dir) == r[dir] = "none"

\* an entry of swLog: the call, whether it requested a pipe and got it, and
\* what it returned
WrapperRet(op, req, got, n, err) ==
  [op |-> op, req |-> req, got |-> got, n |-> n, err |-> err]

\* the wrapper of the Call Home server dialer: a channel on a server
\* connection, no pipes
ServerCallhomeConn == "server/callhome.sshCallhomeConn"

\* the fields of a wrapper as its constructor leaves them, with the state of
\* what they refer to
NewWrapper(kind) ==
  IF kind = ServerCallhomeConn
  THEN [channel |-> "open", conn |-> "open"]
  ELSE [reader |-> "none", writer |-> "none", session |-> "open", client |-> "open"]

\* client/callhome sshCallhomeConn.Close: writer (if opened), session, client,
\* returning at the first error
sshCallhomeConnClose(r, errs) ==
  LET w == r.writer /= "none"
  IN IF w /\ errs["writer"]
     THEN [err |-> TRUE, res |-> [r EXCEPT !.writer = "closed"]]
     ELSE LET r1 == [r EXCEPT !.writer = IF w THEN "closed" ELSE @, !.session = "closed"]
          IN IF errs["session"] THEN [err |-> TRUE, res |-> r1]
             ELSE [err |-> errs["client"], res |-> [r1 EXCEPT !.client = "closed"]]

\* server/callhome sshCallhomeConn.Close: channel, conn, returning at the
\* first error
serverCallhomeConnClose(r, errs) ==
  LET r1 == [r EXCEPT !.channel = "closed"]
  IN IF errs["channel"] THEN [err |-> TRUE, res |-> r1]
     ELSE [err |-> errs["conn"], res |-> [r1 EXCEPT !.conn = "closed"]]

\* which of the closes of a wrapper's Close can return an error
WrapperCloseErrs(kind) ==
  IF kind = ServerCallhomeConn THEN [{"channel", "conn"} -> BOOLEAN] ELSE CloseErrs

\* Close() by the type of the wrapper
WrapperCloseResult(kind, r, errs) ==
  CASE kind = "sshConn" -> sshConnClose(1, r, "none", errs)
    [] kind = "sshSessionConn" -> sshSessionConnClose(1, r, "none", errs)
    [] kind = "sshCallhomeConn" -> sshCallhomeConnClose(r, errs)
    [] OTHER -> serverCallhomeConnClose(r, errs)

WrapperClosed == \E i \in 1..Len(swLog) : swLog[i].op = "Close"

WrapperInputs == {in \in [pipeOk : BOOLEAN, n : Counts, e : BOOLEAN] : in.e => in.n = 0}

\* Read(p) on the wrapper
WrapperRead ==
  /\ swKind \in WrapperKinds /\ ~WrapperClosed
  /\ Len(swLog) < MaxCalls
  /\ \E in \in WrapperInputs :
       LET req == PipeRequested(swPipes, "reader")
           io == sshConnRead(swPipes, in.pipeOk, in.n, in.e)
       IN /\ ~req => in.pipeOk
          /\ swPipes' = io.res
          /\ swReqs' = [swReqs EXCEPT !.reader = IF req THEN @ + 1 ELSE @]
          /\ swLog' = Append(swLog, WrapperRet("Read", req, req /\ in.pipeOk, io.n, io.err))
  /\ UNCHANGED swKind
  /\ UNCHANGED <<clientvars, cfgvars, trvars, epvars, esvars>>
  /\ UNCHANGED chvars

\* Write(p) on the wrapper
WrapperWrite ==
  /\ swKind \in WrapperKinds /\ ~WrapperClosed
  /\ Len(swLog) < MaxCalls
  /\ \E in \in WrapperInputs :
       LET req == PipeRequested(swPipes, "writer")
           io == sshConnWrite(swPipes, in.pipeOk, in.n, in.e)
       IN /\ ~req => in.pipeOk
          /\ swPipes' = io.res
          /\ swReqs' = [swReqs EXCEPT !.writer = IF req THEN @ + 1 ELSE @]
          /\ swLog' = Append(swLog, WrapperRet("Write", req, req /\ in.pipeOk, io.n, io.err))
  /\ UNCHANGED swKind
  /\ UNCHANGED <<clientvars, cfgvars, trvars, epvars, esvars>>
  /\ UNCHANGED chvars

\* Close() on the wrapper, by the session layer when it is done with it
WrapperClose ==
  /\ ~WrapperClosed
  /\ \E errs \in WrapperCloseErrs(swKind) :
       LET c == WrapperCloseResult(swKind, swPipes, errs)
       IN /\ swPipes' = c.res
          /\ swLog' = Append(swLog, WrapperRet("Close", FALSE, FALSE, 0, c.err))
  /\ UNCHANGED <<swKind, swReqs>>
  /\ UNCHANGED <<clientvars, cfgvars, trvars, epvars, esvars>>
  /\ UNCHANGED chvars

\* ------------------ one attempt of a TLS / SSH establishment path, by steps
TLSPaths == {"client.TLSDialer.Dial", "callhome.TLSListener.Accept",
             "callhome.TLSDialer.Dial"}
SSHPaths == {"client.SSHDialer.Dial", "callhome.SSHListener.Accept"}
EstPaths == TLSPaths \cup SSHPaths
DialPaths == {"client.TLSDialer.Dial", "callhome.TLSDialer.Dial", "client.SSHDialer.Dial"}
AcceptPaths == EstPaths \ DialPaths

\* an entry of esLog: a hook ("hook"), a Close ("close"), a library call ("call")
EsEv(k, name, err) == [k |-> k, name |-> name, err |-> err]

\* the hook a Dial defers / an Accept emits once the TCP step is over
DialDoneEv(path, err) ==
  IF path \in DialPaths THEN <<EsEv("hook", "DialDone", err)>> ELSE <<>>

\* conn.Close / client.Close / session.Close on the resources of the attempt;
\* closing the SSH client closes the connection under it
ApplyClose(r, k) ==
  CASE k = "tcp" -> [r EXCEPT !.tcp = "closed"]
    [] k = "client" -> [r EXCEPT !.client = "closed", !.tcp = "closed"]
    [] OTHER -> [r EXCEPT !.session = "closed"]

RECURSIVE ApplyCloses(_, _)
ApplyCloses(r, ks) ==
  IF ks = <<>> THEN r ELSE ApplyCloses(ApplyClose(r, Head(ks)), Tail(ks))

CloseEvs(ks) == [i \in 1..Len(ks) |-> EsEv("close", ks[i], FALSE)]

\* mutant: a failed TLS handshake leaves the raw connection open
FailureCloses_LeavesTCP(path, stage) ==
  CASE stage = "handshake" -> IF path \in TLSPaths THEN <<>> ELSE <<"tcp">>
    [] stage = "session" -> <<"client">>
    [] OTHER -> <<"session", "client">>

\* mutant: the client closed before the session
FailureCloses_ClientFirst(path, stage) ==
  CASE stage = "handshake" -> <<"tcp">>
    [] stage = "session" -> <<"client">>
    [] OTHER -> <<"client", "session">>

\* mutant: Accept leaves the SSH client open when the session cannot be made
FailureCloses_AcceptKeepsClient(path, stage) ==
  CASE stage = "handshake" -> <<"tcp">>
    [] stage = "session" -> IF path = "callhome.SSHListener.Accept" THEN <<>>
                            ELSE <<"client">>
    [] OTHER -> <<"session", "client">>

\* what each path closes when it fails at a stage:
\*   handshake: _ = netConn.Close() / _ = conn.Close()
\*   session:   _ = client.Close()
\*   subsystem: _ = session.Close(); _ = client.Close()
FailureCloses(path, stage) ==
  CASE stage = "handshake" -> <<"tcp">>
    [] stage = "session" -> <<"client">>
    [] OTHER -> <<"session", "client">>

\* mutant: the deadline left on the connection
AfterHandshakeDeadline_Kept(d) == d

\* _ = conn.SetDeadline(time.Time{}) after a successful handshake
AfterHandshakeDeadline(d) == "none"

\* the TCP step: DialContext (observes the context), the net.DialTimeout
\* inside ssh.Dial (without the context) or listener.Accept (without the
\* context)
EstConnect(ok) ==
  /\ esPc = "start"
  /\ (ok /\ esPath \in {"client.TLSDialer.Dial", "callhome.TLSDialer.Dial"})
       => esCtx \notin {"expired", "cancelled"}
  /\ LET startEv == IF esPath \in DialPaths
                    THEN <<EsEv("hook", "DialStart", FALSE)>> ELSE <<>>
         acceptEv == IF esPath \in AcceptPaths
                     THEN <<EsEv("hook", "AcceptDone", ~ok)>> ELSE <<>>
     IN IF ok
        THEN /\ esRes' = [esRes EXCEPT !.tcp = "open"]
             /\ esPc' = IF esPath \in TLSPaths THEN "wrap" ELSE "handshake"
             /\ esLog' = esLog \o startEv \o acceptEv
        ELSE /\ esPc' = "retErr"
             /\ esLog' = esLog \o startEv \o acceptEv \o DialDoneEv(esPath, TRUE)
             /\ UNCHANGED esRes
  /\ UNCHANGED <<esPath, esCtx>>
  /\ UNCHANGED <<clientvars, cfgvars, trvars, epvars, swvars>>
  /\ UNCHANGED chvars

\* tls.Client / tls.Server, then
\* if deadline, ok := ctx.Deadline(); ok { _ = conn.SetDeadline(deadline) }
EstSetDeadline ==
  /\ esPc = "wrap"
  /\ IF HasDeadline(esCtx)
     THEN /\ esRes' = [esRes EXCEPT !.deadline = "set"]
          /\ esLog' = Append(esLog, EsEv("call", "SetDeadline", FALSE))
     ELSE UNCHANGED <<esRes, esLog>>
  /\ esPc' = "handshake"
  /\ UNCHANGED <<esPath, esCtx>>
  /\ UNCHANGED <<clientvars, cfgvars, trvars, epvars, swvars>>
  /\ UNCHANGED chvars

\* a handshake on a connection whose deadline has passed cannot complete
HandshakeCanSucceed == ~(esRes.deadline = "set" /\ esCtx = "expired")

\* conn.Handshake() of a TLS path; ssh.NewClientConn, called by
\* SSHListener.Accept and, inside ssh.Dial, by the client SSHDialer.Dial: it
\* closes the connection itself when the handshake fails
EstHandshake(ok) ==
  /\ esPc = "handshake"
  /\ ok => HandshakeCanSucceed
  /\ IF ok
     THEN IF esPath \in TLSPaths
          THEN /\ esRes' = [esRes EXCEPT !.deadline = AfterHandshakeDeadline(@)]
               /\ esLog' = esLog
                    \o <<EsEv("call", "ClearDeadline", FALSE)>>
                    \o (IF esPath /= "client.TLSDialer.Dial"
                        THEN <<EsEv("hook", "TLSConnected", FALSE)>> ELSE <<>>)
                    \o DialDoneEv(esPath, FALSE)
               /\ esPc' = "retConn"
          ELSE /\ esRes' = [esRes EXCEPT !.client = "open"]
               /\ esLog' = esLog
                    \o <<EsEv("call", "NewClientConn", FALSE)>>
                    \o (IF esPath = "callhome.SSHListener.Accept"
                        THEN <<EsEv("hook", "SSHConnected", FALSE)>> ELSE <<>>)
               /\ esPc' = "session"
     ELSE /\ esRes' = ApplyCloses(esRes, FailureCloses(esPath, "handshake"))
          /\ esLog' = esLog
                    \o (IF esPath \in SSHPaths
                        THEN <<EsEv("call", "NewClientConn", TRUE)>> ELSE <<>>)
                    \o CloseEvs(FailureCloses(esPath, "handshake"))
                            \o DialDoneEv(esPath, TRUE)
          /\ esPc' = "retErr"
  /\ UNCHANGED <<esPath, esCtx>>
  /\ UNCHANGED <<clientvars, cfgvars, trvars, epvars, swvars>>
  /\ UNCHANGED chvars

\* client.NewSession()
EstSession(ok) ==
  /\ esPc = "session"
  /\ IF ok
     THEN /\ esRes' = [esRes EXCEPT !.session = "open"]
          /\ esPc' = "subsystem"
          /\ esLog' = Append(esLog, EsEv("call", "NewSession", FALSE))
     ELSE /\ esRes' = ApplyCloses(esRes, FailureCloses(esPath, "session"))
          /\ esLog' = esLog \o <<EsEv("call", "NewSession", TRUE)>>
                            \o CloseEvs(FailureCloses(esPath, "session"))
                            \o DialDoneEv(esPath, TRUE)
          /\ esPc' = "retErr"
  /\ UNCHANGED <<esPath, esCtx>>
  /\ UNCHANGED <<clientvars, cfgvars, trvars, epvars, swvars>>
  /\ UNCHANGED chvars

\* session.RequestSubsystem("netconf")
EstSubsystem(ok) ==
  /\ esPc = "subsystem"
  /\ IF ok
     THEN /\ esLog' = esLog
               \o <<EsEv("call", "RequestSubsystem", FALSE)>>
               \o (IF esPath = "callhome.SSHListener.Accept"
                   THEN <<EsEv("hook", "SubsystemReady", FALSE)>> ELSE <<>>)
               \o DialDoneEv(esPath, FALSE)
          /\ esPc' = "retConn"
          /\ UNCHANGED esRes
     ELSE /\ esRes' = ApplyCloses(esRes, FailureCloses(esPath, "subsystem"))
          /\ esLog' = esLog \o <<EsEv("call", "RequestSubsystem", TRUE)>>
                            \o CloseEvs(FailureCloses(esPath, "subsystem"))
                            \o DialDoneEv(esPath, TRUE)
          /\ esPc' = "retErr"
  /\ UNCHANGED <<esPath, esCtx>>
  /\ UNCHANGED <<clientvars, cfgvars, trvars, epvars, swvars>>
  /\ UNCHANGED chvars

\* the deadline of the context passes while the call is running
EstExpire ==
  /\ esCtx = "deadline"
  /\ esPc \notin {"retConn", "retErr"}
  /\ esCtx' = "expired"
  /\ UNCHANGED <<esPath, esPc, esRes, esLog>>
  /\ UNCHANGED <<clientvars, cfgvars, trvars, epvars, swvars>>
  /\ UNCHANGED chvars

\* ------------------------------------------------------- specifications
CtxKinds == {"none", "deadline"}

InitCallHome ==
  /\ proto \in {"ssh", "tls"}
  /\ scen \in {"callhome", "faulty", "raw"}
  /\ scen = "raw" => proto = "ssh"
  /\ compat \in BOOLEAN
  /\ ctx \in [Sides -> CtxKinds]
  /\ scen = "raw" => ctx["L"] = "none"
  /\ tcp = "none"
  /\ hs = "none"
  /\ role = [s \in Sides |-> NoRole]
  /\ apc = "idle" /\ dpc = "idle" /\ gpc = "none"
  /\ aret = "none" /\ dret = "none"
  /\ chans = <<>> /\ requests = <<>>
  /\ closed = [chans |-> FALSE, requests |-> FALSE]
  /\ subsystemChan = <<>>
  /\ replies = <<>>
  /\ own = [s \in Sides |-> NoOwn]
  /\ clog = [s \in Sides |-> <<>>]
  /\ wire = [d \in {"LtoD", "DtoL"} |-> <<>>]
  /\ sent = [d \in {"LtoD", "DtoL"} |-> <<>>]
  /\ rcvd = [d \in {"LtoD", "DtoL"} |-> <<>>]
  /\ lsock = "open"
  /\ peerSent = [opens |-> 0, reqs |-> 0]

\* the Call Home world before anything runs, for the Transport specification
CallHomeIdle ==
  /\ InitCallHome
  /\ proto = "ssh" /\ scen = "callhome" /\ compat
  /\ ctx = [s \in Sides |-> "none"]

\* the Transport world before anything runs, for the Call Home specification
TransportIdle ==
  /\ dkind = "SSHDialer"
  /\ ntr = 0
  /\ tstat = [t \in TrIds |-> "none"]
  /\ tconn = [t \in TrIds |-> "nil"]
  /\ res = [t \in TrIds |-> NoRes]
  /\ ext = "none"
  /\ nops = 0
  /\ log = NoLog
  /\ cfgIn = [f \in CfgFields |-> 0]
  /\ cfgResolved = <<>>
  /\ defaultConfig = [f \in CfgFields |-> 1]
  /\ TraceIdle
  /\ EndpointIdle
  /\ EstablishIdle
  /\ WrapperIdle

DialerStep ==
  \/ DialStart \/ DialHandshake \/ HandleChannelsReject \/ HandleChannelsSession
  \/ HandleChannelsNone \/ HandleChannelsWait

GoroutineStep == ServeRequest \/ ServeEnd \/ ServeLater \/ ServeLaterEnd

ListenerStep ==
  AcceptStart \/ AcceptTCP \/ AcceptHandshake \/ AcceptSession \/ AcceptSubsystem

ReadStep == \E side \in Sides, len \in 1..MaxBytes : Read(side, len)

Init == InitCallHome /\ TransportIdle

Next ==
  \/ DialStart
  \/ DialHandshake
  \/ HandleChannelsReject
  \/ HandleChannelsSession
  \/ HandleChannelsNone
  \/ HandleChannelsWait
  \/ ServeRequest
  \/ ServeEnd
  \/ ServeLater
  \/ ServeLaterEnd
  \/ Handshake
  \/ \E side \in Sides : Expire(side)
  \/ \E ty \in ChannelTypes : RawOpen(ty)
  \/ \E req \in RawRequests : RawRequest(req)
  \/ RawCloseChannel
  \/ RawCloseConn
  \/ AcceptStart
  \/ AcceptTCP
  \/ AcceptHandshake
  \/ AcceptSession
  \/ AcceptSubsystem
  \/ ListenerClose
  \/ \E side \in Sides, n \in 1..MaxBytes : Write(side, n)
  \/ \E side \in Sides, len \in 1..MaxBytes : Read(side, len)

Spec == Init /\ [][Next]_vars

\* Accept, Dial and the goroutine each run in a goroutine of their own and
\* are scheduled when they can run; the libraries complete a handshake both
\* sides have entered and deliver the bytes a blocked Read waits for.
Fairness ==
  /\ WF_vars(ListenerStep)
  /\ WF_vars(DialerStep)
  /\ WF_vars(GoroutineStep)
  /\ WF_vars(Handshake)
  /\ WF_vars(ReadStep)

FairSpec == Spec /\ Fairness

InitTransport ==
  /\ dkind \in DialerKinds
  /\ ntr = 0
  /\ tstat = [t \in TrIds |-> "none"]
  /\ tconn = [t \in TrIds |-> "nil"]
  /\ res = [t \in TrIds |-> NoRes]
  /\ ext = IF dkind \in ReuseKinds THEN "open" ELSE "none"
  /\ nops = 0
  /\ log = NoLog
  /\ cfgIn \in {[f \in CfgFields |-> 0], [setupTimeout |-> MaxCfgVal, requestTimeout |-> 0]}
  /\ cfgResolved = <<>>
  /\ defaultConfig = [f \in CfgFields |-> 1]
  /\ TraceIdle
  /\ EndpointIdle
  /\ EstablishIdle
  /\ WrapperIdle
  /\ CallHomeIdle

NextTransport ==
  \/ NewTransport
  \/ NewRPCSessionFromDialer
  \/ \E t \in TrIds : TransportRead(t)
  \/ \E t \in TrIds : TransportWrite(t)
  \/ \E t \in TrIds : TransportClose(t)
  \/ DialerCloseNil

SpecTransport == InitTransport /\ [][NextTransport]_vars

\* ------------------------------------------------ claims: Transport world
CloseReturned(t) == Pos(OfTr(log, t), "ret", "Close") /= {}

\* C3: Dialer.Close(conn) on a reuse variant never closes the caller-supplied
\* client / connection; on a fresh-dial variant with a non-nil conn it closes
\* the client / connection that Dial created.
C3_CloseOwnership ==
  /\ dkind \in ReuseKinds => ext = "open"
  /\ \A t \in TrIds :
       CloseReturned(t) =>
         /\ dkind = "SSHDialer" => res[t].client = "closed" /\ res[t].session = "closed"
         /\ dkind = "TLSDialer" => res[t].netconn = "closed"

C3_Witness ==
  /\ dkind = "SSHClientDialer"
  /\ \E t \in TrIds : CloseReturned(t) /\ res[t].session = "closed" /\ ext = "open"

\* the connect / dial hooks of Transport t, by name, in emission order
ConnectHooks(t) ==
  LET IsConnectHook(e) ==
        e.k = "hook" /\ e.name \in {"ConnectStart", "DialStart", "DialDone", "ConnectDone"}
      h == SelectSeq(OfTr(log, t), IsConnectHook)
  IN [i \in 1..Len(h) |-> <<h[i].name, h[i].err>>]

\* C8: for a single NewTransport call the hooks are emitted in the order
\* ConnectStart, DialStart, DialDone, ConnectDone, on the success and on the
\* dial-failure path (the Dialers that wrap an existing connection emit no
\* dial hooks: ConnectStart, ConnectDone).
C8_ConnectOrder ==
  \A t \in TrIds :
    tstat[t] /= "none" =>
      LET failed == tstat[t] = "nil"
      IN ConnectHooks(t) =
           IF dkind \in FreshKinds
           THEN << <<"ConnectStart", FALSE>>, <<"DialStart", FALSE>>,
                   <<"DialDone", failed>>, <<"ConnectDone", failed>> >>
           ELSE << <<"ConnectStart", FALSE>>, <<"ConnectDone", failed>> >>

C8_Witness ==
  /\ dkind = "TLSDialer"
  /\ tstat[1] = "nil" /\ tstat[2] = "live"
  /\ Len(ConnectHooks(1)) = 4 /\ Len(ConnectHooks(2)) = 4

NClosedHooks(t) == Cardinality(Pos(OfTr(log, t), "hook", "ConnectionClosed"))
NCloseCalls(t) == Cardinality(Pos(OfTr(log, t), "call", "Close"))

\* C9 as stated: ConnectionClosed is emitted exactly once per Transport, and
\* only after Close was invoked, however often Close is called.
C9_OncePerTransport ==
  \A t \in TrIds :
    /\ NCloseCalls(t) = 0 => NClosedHooks(t) = 0
    /\ NCloseCalls(t) >= 1 => NClosedHooks(t) = 1

\* C9 amended: ConnectionClosed is emitted exactly once per Close call, as
\* that call returns (after the delegated close), and never without one.
C9_OncePerClose ==
  \A t \in TrIds :
    LET s == OfTr(log, t)
    IN /\ NClosedHooks(t) = NCloseCalls(t)
       /\ \A i \in Pos(s, "hook", "ConnectionClosed") :
            /\ i < Len(s) /\ s[i + 1] = Ret(t, "Close", 0, s[i + 1].err)
            /\ \E j \in Pos(s, "call", "Close") :
                 /\ j < i
                 /\ \A m \in (j + 1)..(i - 1) : s[m].k = "close"

C9_Witness == \E t \in TrIds : NCloseCalls(t) = 2 /\ NClosedHooks(t) = 2

\* C10: the error ConnectionClosed receives is the error Close returns.
C10_HookGetsCloseError ==
  \A t \in TrIds :
    LET s == OfTr(log, t)
    IN \A i \in Pos(s, "hook", "ConnectionClosed") :
         i < Len(s) /\ s[i + 1].k = "ret" => s[i].err = s[i + 1].err

\* ------------------------------------------------ claims: Call Home world
Dirs == {"LtoD", "DtoL"}
GoodCallHome == scen = "callhome" /\ compat
BothConnected == aret = "conn" /\ dret = "conn"
StreamsInOrder == \A d \in Dirs : sent[d] = rcvd[d] \o wire[d]

\* C1: with compatible configurations and no environment fault, Accept and
\* Dial running concurrently (in either start order) both return a
\* connection without error, what is read from a stream is what was written
\* to the other, in order, and everything written is eventually read.
C1_CallHomeConnects ==
  /\ GoodCallHome ~> BothConnected
  /\ [](GoodCallHome => StreamsInOrder)
  /\ GoodCallHome => []<>(\A d \in Dirs : wire[d] = <<>>)

C1_Witness ==
  /\ GoodCallHome /\ BothConnected /\ proto = "ssh"
  /\ \A d \in Dirs : Len(rcvd[d]) = MaxBytes /\ rcvd[d] = sent[d]

\* C2: the side that accepted the TCP connection handshakes as client, the
\* side that initiated it as server; the TCP initiator is never the
\* secure-handshake client.
C2_RoleInversion ==
  /\ own["D"].tcp /= "none" => role["D"] = [tcp |-> "initiator", hs |-> "server"]
  /\ (scen /= "raw" /\ own["L"].tcp /= "none") =>
        role["L"] = [tcp |-> "acceptor", hs |-> "client"]
  /\ \A side \in Sides : ~(role[side].tcp = "initiator" /\ role[side].hs = "client")

C2_Witness ==
  /\ proto = "tls" /\ scen = "callhome" /\ BothConnected
  /\ role["D"] = [tcp |-> "initiator", hs |-> "server"]
  /\ role["L"] = [tcp |-> "acceptor", hs |-> "client"]

\* a step in which the dialer rejects a channel-open
RejectionStep ==
  /\ Len(replies') = Len(replies) + 1
  /\ replies'[Len(replies')].k = "open"
  /\ ~replies'[Len(replies')].ok

\* C4: a channel-open of a type other than "session" is rejected with
\* "unknown channel type", the rejection does not end the negotiation, and a
\* "session" channel-open received after it is accepted.
C4_RejectAndContinue ==
  /\ [](\A i \in 1..Len(replies) :
          replies[i].k = "open" =>
            IF replies[i].ty = "session" THEN replies[i].ok
            ELSE ~replies[i].ok /\ replies[i].why = "unknown channel type")
  /\ [][RejectionStep => (dpc' = "chans" /\ dret' = "none")]_vars
  /\ []((dpc = "chans" /\ chans /= <<>> /\ Head(chans) = "session" /\ DAlive)
          => ENABLED HandleChannelsSession)

C4_Witness ==
  /\ dret = "conn"
  /\ \E i, j \in 1..Len(replies) :
       /\ i < j
       /\ replies[i] = OpenReply("direct-tcpip", FALSE, "unknown channel type")
       /\ replies[j] = OpenReply("session", TRUE, "")

\* a "subsystem" request naming "netconf"
NamesNetconf(req) ==
  /\ req.type = "subsystem"
  /\ Len(req.payload) = 4 + Len(Netconf)
  /\ \A i \in 1..Len(Netconf) : req.payload[4 + i] = Netconf[i]

ReqReplies == RepliesOf("req")

\* the goroutine saw the request stream end, and no request named netconf
ExhaustedWithoutNetconf ==
  /\ gpc = "done"
  /\ \A i \in 1..Len(ReqReplies) : ~NamesNetconf(ReqReplies[i].req)

NoSessionArrived ==
  /\ gpc = "none"
  /\ dret /= ErrAcceptChannel
  /\ \A i \in 1..Len(chans) : chans[i] /= "session"

\* C6: when the channel-open stream closes without a "session" channel
\* having arrived, Dial returns "no session channel received" and no connection.
C6_NoSessionFails ==
  /\ []((proto = "ssh" /\ own["D"].sec /= "none" /\ dpc = "done" /\ NoSessionArrived)
          => dret = ErrNoSession)
  /\ (dpc = "chans" /\ closed.chans /\ NoSessionArrived) ~> (dret = ErrNoSession)

C6_Witness ==
  /\ dret = ErrNoSession
  /\ \E i \in 1..Len(replies) : replies[i].k = "open" /\ ~replies[i].ok

\* C7: the first "subsystem" request naming "netconf" is answered with
\* success, every request after it (a second such request included) is
\* answered negatively: at most one positive reply per channel.
C7_OneGrant ==
  /\ Cardinality({i \in 1..Len(ReqReplies) : ReqReplies[i].ok}) <= 1
  /\ \A i \in 1..Len(ReqReplies) :
       ReqReplies[i].ok <=>
         /\ NamesNetconf(ReqReplies[i].req)
         /\ \A j \in 1..(i - 1) : ~NamesNetconf(ReqReplies[j].req)

C7_Witness ==
  /\ Len(ReqReplies) >= 2
  /\ ReqReplies[1].ok
  /\ NamesNetconf(ReqReplies[2].req) /\ ~ReqReplies[2].ok

\* the NewTransport call of Transport t has returned
NewTransportReturned(t) == Pos(OfTr(log, t), "ret", "NewTransport") /= {}

\* C11: NewTransport emits ConnectDone exactly once, carrying the error it
\* returns; when Dial fails it returns a nil Transport with the error, and a
\* connection object that came with the error is closed through dialer.Close
\* before the error is returned.
C11_ConnectDoneAndPartial ==
  \A t \in TrIds :
    NewTransportReturned(t) =>
      LET s == OfTr(log, t)
          done == Pos(s, "hook", "ConnectDone")
          rets == Pos(s, "ret", "NewTransport")
          closes == Pos(s, "io", "dialer.Close")
      IN /\ Cardinality(done) = 1 /\ Cardinality(rets) = 1
         /\ \A i \in done, j \in rets :
              /\ i < j
              /\ s[i].err = s[j].err
              /\ s[j].err <=> tstat[t] = "nil"
              /\ (s[j].err /\ tconn[t] /= "nil") =>
                   /\ \E c \in closes : c < i
                   /\ dkind = "AnyDialer" => res[t].netconn = "closed"
              /\ ~s[j].err => closes = {}

C11_Witness ==
  /\ dkind = "AnyDialer"
  /\ \E t \in TrIds :
       /\ NewTransportReturned(t) /\ tstat[t] = "nil" /\ tconn[t] = "anyConn"
       /\ res[t].netconn = "closed"
  /\ \E t \in TrIds : NewTransportReturned(t) /\ tstat[t] = "live"

IOOps == {"Read", "Write"}
StartHook == [Read |-> "ReadStart", Write |-> "WriteStart"]
DoneHook == [Read |-> "ReadDone", Write |-> "WriteDone"]
Delegate == [Read |-> "conn.Read", Write |-> "conn.Write"]

\* C12: every Transport.Read (Write) call emits exactly one ReadStart
\* (WriteStart) before delegating to the stream and exactly one ReadDone
\* (WriteDone) after it, carrying the byte count and error the call returns.
C12_StartDelegateDone ==
  \A t \in TrIds, op \in IOOps :
    LET s == OfTr(log, t)
        calls == Pos(s, "call", op)
    IN /\ Cardinality(Pos(s, "hook", StartHook[op])) = Cardinality(calls)
       /\ Cardinality(Pos(s, "hook", DoneHook[op])) = Cardinality(calls)
       /\ Cardinality(Pos(s, "io", Delegate[op])) = Cardinality(calls)
       /\ \A i \in calls :
            /\ i + 4 <= Len(s)
            /\ s[i + 1].k = "hook" /\ s[i + 1].name = StartHook[op]
            /\ s[i + 2].k = "io" /\ s[i + 2].name = Delegate[op]
            /\ s[i + 3].k = "hook" /\ s[i + 3].name = DoneHook[op]
            /\ s[i + 4].k = "ret" /\ s[i + 4].name = op
            /\ s[i + 3].n = s[i + 4].n /\ s[i + 3].err = s[i + 4].err

C12_Witness ==
  \E t \in TrIds :
    LET s == OfTr(log, t)
    IN /\ \E i \in Pos(s, "ret", "Read") : s[i].n = 1 /\ ~s[i].err
       /\ \E i \in Pos(s, "ret", "Write") : s[i].err

\* the factory call that made Transport t failed at session establishment
SessionFailed(t) ==
  \E i \in Pos(OfTr(log, t), "ret", "NewSession") : OfTr(log, t)[i].err

\* what the Dialer handed out for Transport t is no longer open
ConnNotOpen(t) ==
  CASE tconn[t] = "sshConn" -> res[t].session = "closed" /\ res[t].client = "closed"
    [] tconn[t] = "sshSessionConn" -> res[t].session = "closed"
    [] tconn[t] \in {"tlsConn", "anyConn"} -> res[t].netconn = "closed"
    [] OTHER -> ext = "closed"

\* Close was called on Transport t before the factory returned, and no
\* session was attempted when NewTransport failed
FactoryClosesTransport(t) ==
  LET s == OfTr(log, t)
  IN /\ SessionFailed(t) =>
          \E i \in Pos(s, "ret", "NewSession"), j \in Pos(s, "call", "Close"),
             k \in Pos(s, "ret", "NewRPCSessionFromDialer") :
               i < j /\ j < k /\ s[k].err
     /\ (\E i \in Pos(s, "ret", "NewTransport") : s[i].err) =>
          Pos(s, "call", "NewSession") = {}

\* C13 as stated: after a failure at session establishment the connection
\* obtained from the Dialer is not left open, for every Dialer variant.
C13_NoConnLeftOpen ==
  \A t \in TrIds :
    /\ FactoryClosesTransport(t)
    /\ SessionFailed(t) => ConnNotOpen(t)

OwningKinds == {"SSHDialer", "TLSDialer", "SSHClientDialer"}

\* C13 amended: after a failure at session establishment the Transport has
\* been closed before the error is returned; what the Dialer itself opened
\* (SSHDialer, TLSDialer, the session of SSHClientDialer) is closed, while the
\* caller-supplied connection of a ConnDialer variant stays open.
C13_OwnedConnClosed ==
  \A t \in TrIds :
    /\ FactoryClosesTransport(t)
    /\ SessionFailed(t) =>
         /\ dkind \in OwningKinds => ConnNotOpen(t)
         /\ dkind \in ReuseKinds => ext = "open"

C13_Witness ==
  /\ dkind = "SSHClientDialer"
  /\ \E t \in TrIds : SessionFailed(t) /\ ConnNotOpen(t) /\ tstat[t] = "dropped"
  /\ \E t \in TrIds : tstat[t] = "nil" /\ Pos(OfTr(log, t), "call", "NewRPCSessionFromDialer") /= {}

\* --------------------------------------------- the configuration merge
\* the session factory applied to any caller record and any default record
InitConfig ==
  /\ dkind = "TLSConnDialer"
  /\ ntr = 0
  /\ tstat = [t \in TrIds |-> "none"]
  /\ tconn = [t \in TrIds |-> "nil"]
  /\ res = [t \in TrIds |-> NoRes]
  /\ ext = "open"
  /\ nops = 0
  /\ log = NoLog
  /\ cfgIn \in Configs
  /\ cfgResolved = <<>>
  /\ defaultConfig \in Configs
  /\ TraceIdle
  /\ EndpointIdle
  /\ EstablishIdle
  /\ WrapperIdle
  /\ CallHomeIdle

SpecConfig == InitConfig /\ [][NewRPCSessionFromDialer]_vars

\* C14: the resolved configuration has, field by field, the caller's value
\* where that is non-zero and the DefaultConfig value where it is zero; the
\* caller's record and DefaultConfig are left unchanged by the merge.
C14_MergeDefaults ==
  /\ [](cfgResolved /= <<>> =>
         \A f \in CfgFields :
           cfgResolved[1][f] = IF cfgIn[f] /= 0 THEN cfgIn[f] ELSE defaultConfig[f])
  /\ [][cfgIn' = cfgIn /\ defaultConfig' = defaultConfig]_vars

C14_Witness ==
  /\ cfgIn = [setupTimeout |-> 0, requestTimeout |-> 2]
  /\ defaultConfig = [setupTimeout |-> 1, requestTimeout |-> 1]
  /\ cfgResolved = <<[setupTimeout |-> 1, requestTimeout |-> 2]>>

\* ------------------------------------------------- claims: trace bundles
\* a component constructed with any bundle a caller can supply, then
\* reporting its events
InitTrace ==
  /\ dkind = "SSHDialer"
  /\ ntr = 0
  /\ tstat = [t \in TrIds |-> "none"]
  /\ tconn = [t \in TrIds |-> "nil"]
  /\ res = [t \in TrIds |-> NoRes]
  /\ ext = "none"
  /\ nops = 0
  /\ log = NoLog
  /\ cfgIn = [f \in CfgFields |-> 0]
  /\ cfgResolved = <<>>
  /\ defaultConfig = [f \in CfgFields |-> 1]
  /\ trComp \in TraceComps
  /\ trRoute = TraceRoute(trComp)
  /\ trGiven \in GivenTraces(trComp)
  /\ trHeld = <<>>
  /\ trEmitted = {}
  /\ trPanic = FALSE
  /\ EndpointIdle
  /\ EstablishIdle
  /\ WrapperIdle
  /\ CallHomeIdle

NextTrace ==
  \/ NewComponent
  \/ \E sl \in AllSlots : InvokeSlot(sl)

SpecTrace == InitTrace /\ [][NextTrace]_vars

\* C15: ContextTrace / ContextTLSTrace never return nil; with no bundle or a
\* nil bundle attached to the context they return the shared no-op default,
\* whose every slot is a callable no-op.
C15_NeverNil ==
  (trHeld /= <<>> /\ trRoute = "ctx") =>
    /\ trHeld[1].ptr /= "nil"
    /\ (~trGiven.has \/ trGiven.tr.ptr = "nil") =>
         /\ trHeld[1].ptr = "noOpTrace"
         /\ \A sl \in TraceSlots(trComp) : trHeld[1].slots[sl] = "noop"

C15_Witness ==
  /\ trComp = "TLSServer" /\ trGiven.has /\ trGiven.tr.ptr = "nil"
  /\ trHeld /= <<>> /\ trHeld[1].ptr = "noOpTrace"
  /\ trEmitted = InvokedSlots(trComp)

\* C16: no event emission ever dereferences an unset slot, whatever bundle
\* the caller supplied.
C16_NoUnsetSlotInvoked == ~trPanic

\* --------------------------------------------- claims: the life cycle
InitEndpoint ==
  /\ dkind = "SSHDialer"
  /\ ntr = 0
  /\ tstat = [t \in TrIds |-> "none"]
  /\ tconn = [t \in TrIds |-> "nil"]
  /\ res = [t \in TrIds |-> NoRes]
  /\ ext = "none"
  /\ nops = 0
  /\ log = NoLog
  /\ cfgIn = [f \in CfgFields |-> 0]
  /\ cfgResolved = <<>>
  /\ defaultConfig = [f \in CfgFields |-> 1]
  /\ TraceIdle
  /\ epKind \in Endpoints
  /\ epBindable \in BOOLEAN
  /\ epKind \in CHDialers => epBindable
  /\ epObj = "none"
  /\ epErr = NoErr
  /\ epSock = "none"
  /\ epLoop = "none"
  /\ epConns = NoConns
  /\ epLog = <<>>
  /\ epArgs \in (IF epKind \in CHDialers THEN DialerArgs ELSE {NoArgs})
  /\ epDialer = NoDialer
  /\ epDials = <<>>
  /\ EstablishIdle
  /\ WrapperIdle
  /\ CallHomeIdle

NextEndpoint ==
  \/ NewListener
  \/ NewServer
  \/ NewDialer
  \/ \E outcome \in {"tcp", "handshake", "session", "subsystem", "ok"} :
       ListenerAccept(outcome)
  \/ \E outcome \in {"tcp", "ok"} : AcceptConnections(outcome)
  \/ \E ok \in BOOLEAN : ServerHandshake(ok)
  \/ \E outcome \in {"tcp", "handshake", "channels", "ok"} : DialerDialCH(outcome)
  \/ EndpointClose
  \/ CHDialerClose
  \/ \E c \in ConnIds : EndpointConnClose(c)

SpecEndpoint == InitEndpoint /\ [][NextEndpoint]_vars

LastReturned == epLog[Len(epLog)]

AcceptFailed(entry) == entry.op = "Accept" /\ entry.err /= ""

\* C17: an Accept of a Call Home listener that returns an error (TCP accept,
\* handshake, session creation or subsystem request) leaves the listening
\* socket as it was, and while the socket is open the next Accept can succeed.
C17_ListenerSurvivesAcceptError ==
  /\ [][(epLog' /= epLog /\ AcceptFailed(epLog'[Len(epLog')]))
          => epSock' = epSock]_vars
  /\ []((/\ epLog /= <<>> /\ AcceptFailed(LastReturned)
         /\ epSock = "open" /\ Len(epLog) < MaxCalls)
          => ENABLED ListenerAccept("ok"))

\* an SSH listener whose Accept failed at the subsystem request and then
\* returned a connection
C17_Witness ==
  /\ epKind = "SSHListener" /\ epSock = "open"
  /\ Len(epLog) = 2
  /\ epLog[1] = Returned("Accept", "callhome: failed to request netconf subsystem", 0)
  /\ epLog[2] = Returned("Accept", "", 1)
  /\ epConns[1] = "open"

\* C18: Close on a Call Home listener closes the listening socket only: the
\* connection Accept returned keeps its resources and its data, and can
\* still be written to and read from.
C18_CloseLeavesAccepted ==
  /\ [][lsock' /= lsock =>
          /\ lsock' = "closed"
          /\ own' = own /\ aret' = aret /\ closed' = closed
          /\ wire' = wire /\ sent' = sent /\ rcvd' = rcvd]_vars
  /\ []((lsock = "closed" /\ aret = "conn") =>
          /\ own["L"].tcp = "open"
          /\ Len(sent["LtoD"]) < MaxBytes => ENABLED Write("L", 1)
          /\ wire["DtoL"] /= <<>> => ENABLED Read("L", 1))

C18_Witness ==
  /\ lsock = "closed" /\ aret = "conn" /\ dret = "conn"
  /\ own["L"].sec = "open"
  /\ sent["LtoD"] /= <<>> /\ rcvd["DtoL"] /= <<>>

\* C19: when the listen address cannot be bound, NewSSHListener,
\* NewTLSListener and the TLS NewServer return nil and an error whose cause
\* is the bind failure; no socket is open and no accept loop runs.
C19_BindFailure ==
  (~epBindable /\ epObj /= "none") =>
    /\ epObj = "nil"
    /\ epErr /= NoErr /\ epErr.cause = BindErr.cause
    /\ epSock = "none"
    /\ epLoop = "none"
    /\ epLog = <<>> /\ epConns = NoConns

C19_Witness ==
  /\ epKind = "TLSServer" /\ ~epBindable
  /\ epObj = "nil" /\ epErr = BindErr

\* the server-side Close calls so far
DialerCloses == {i \in 1..Len(epLog) : epLog[i].op = "Close"}

\* C20: Close on a Call Home server dialer returns nil whenever it is called,
\* changes no connection Dial produced, and Dial can be called after it.
C20_DialerCloseNoOp ==
  /\ [](epKind \in CHDialers =>
          /\ \A i \in DialerCloses : epLog[i].err = ""
          /\ (epLog /= <<>> /\ LastReturned.op = "Close" /\ Len(epLog) < MaxCalls)
               => \A outcome \in DialOutcomesCH(epKind) : ENABLED DialerDialCH(outcome))
  /\ [][(epKind \in CHDialers /\ epLog' /= epLog /\ epLog'[Len(epLog')].op = "Close")
          => epConns' = epConns]_vars

\* Dial, Close, Dial: both connections open
C20_Witness ==
  /\ epKind = "CHSSHDialer"
  /\ Len(epLog) = 3
  /\ epLog[1] = Returned("Dial", "", 1)
  /\ epLog[2] = Returned("Close", "", 0)
  /\ epLog[3] = Returned("Dial", "", 2)
  /\ epConns[1] = "open" /\ epConns[2] = "open"

\* the Dial calls made so far
DialCalls == {i \in 1..Len(epLog) : epLog[i].op = "Dial"}

\* C21: Target() of a Call Home server dialer is the target string given at
\* construction, in every state: no Dial and no Close changes it.
C21_TargetImmutable ==
  /\ []((epKind \in CHDialers /\ epObj = "live") => Target(epDialer) = epArgs.target)
  /\ [][epObj = "live" => epDialer' = epDialer]_vars

\* Dial (failed), Close, Dial (connected), and the target as constructed
C21_Witness ==
  /\ epKind = "CHTLSDialer" /\ epArgs.target = "192.0.2.2:4334"
  /\ Len(epLog) = 3
  /\ epLog[1].op = "Dial" /\ epLog[1].err /= ""
  /\ epLog[2].op = "Close"
  /\ epLog[3] = Returned("Dial", "", 1)
  /\ Target(epDialer) = "192.0.2.2:4334"

\* the NetDialer a dialer constructed with arguments a must dial through
ExpectedNetDialer(a) ==
  IF a.ctor = "options" /\ a.netDialer = "custom" THEN "custom" ELSE "DefaultNetDialer"

\* C30: a Call Home server dialer makes exactly one DialContext call per Dial,
\* to its target, through the injected NetDialer when one was supplied to
\* New*DialerWithOptions and through DefaultNetDialer otherwise.
C30_OneDialThroughNetDialer ==
  epKind \in CHDialers =>
    /\ Len(epDials) = Cardinality(DialCalls)
    /\ \A i \in 1..Len(epDials) :
         /\ epDials[i].via = ExpectedNetDialer(epArgs)
         /\ epDials[i].network = "tcp"
         /\ epDials[i].address = epArgs.target

C30_Witness ==
  /\ epKind = "CHSSHDialer"
  /\ epArgs.ctor = "options" /\ epArgs.netDialer = "custom"
  /\ Len(epDials) = 2 /\ epDials[2].via = "custom"
  /\ epLog[Len(epLog)] = Returned("Dial", "", 1)

\* --------------------------------------- claims: establishment paths
InitEstablish ==
  /\ dkind = "SSHDialer"
  /\ ntr = 0
  /\ tstat = [t \in TrIds |-> "none"]
  /\ tconn = [t \in TrIds |-> "nil"]
  /\ res = [t \in TrIds |-> NoRes]
  /\ ext = "none"
  /\ nops = 0
  /\ log = NoLog
  /\ cfgIn = [f \in CfgFields |-> 0]
  /\ cfgResolved = <<>>
  /\ defaultConfig = [f \in CfgFields |-> 1]
  /\ TraceIdle
  /\ EndpointIdle
  /\ esPath \in EstPaths
  /\ esCtx \in {"none", "deadline", "expired", "cancelled"}
  /\ esPc = "start"
  /\ esRes = EstRes
  /\ esLog = <<>>
  /\ WrapperIdle
  /\ CallHomeIdle

NextEstablish ==
  \/ \E ok \in BOOLEAN : EstConnect(ok)
  \/ EstSetDeadline
  \/ \E ok \in BOOLEAN : EstHandshake(ok)
  \/ \E ok \in BOOLEAN : EstSession(ok)
  \/ \E ok \in BOOLEAN : EstSubsystem(ok)
  \/ EstExpire

SpecEstablish == InitEstablish /\ [][NextEstablish]_vars

EsPos(k, name) == {i \in 1..Len(esLog) : esLog[i].k = k /\ esLog[i].name = name}

\* C22: on every TLS establishment path a context deadline is on the
\* connection for the handshake only: it is set exactly when the context
\* carries one, and a connection that is returned has no deadline set.
C22_DeadlineForHandshakeOnly ==
  esPath \in TLSPaths =>
    /\ esPc = "handshake" => (esRes.deadline = "set" <=> HasDeadline(esCtx))
    /\ esRes.deadline = "set" => esPc \in {"handshake", "retErr"}
    /\ esPc = "retConn" => esRes.deadline = "none"

C22_Witness ==
  /\ esPath = "client.TLSDialer.Dial" /\ esCtx = "deadline"
  /\ esPc = "retConn" /\ esRes.tcp = "open"
  /\ EsPos("call", "SetDeadline") /= {} /\ EsPos("call", "ClearDeadline") /= {}

\* C23: on every TLS establishment path a handshake failure closes the raw
\* TCP connection of the attempt and returns an error; TLSConnected is
\* emitted only when the handshake succeeded.
C23_HandshakeFailureClosesTCP ==
  esPath \in TLSPaths =>
    /\ (esPc = "retErr" /\ esRes.tcp /= "none") =>
         /\ esRes.tcp = "closed"
         /\ EsPos("close", "tcp") /= {}
    /\ EsPos("hook", "TLSConnected") /= {} => (esPc = "retConn" /\ esRes.tcp = "open")
    /\ (esPc = "retConn" /\ esPath /= "client.TLSDialer.Dial")
         => Cardinality(EsPos("hook", "TLSConnected")) = 1

\* the handshake of the Call Home TLS dialer ran into the deadline
C23_Witness ==
  /\ esPath = "callhome.TLSDialer.Dial" /\ esCtx = "expired"
  /\ esPc = "retErr" /\ esRes.tcp = "closed" /\ esRes.deadline = "set"

\* C24: in client SSHDialer.Dial and call-home SSHListener.Accept an error
\* return leaves no session, client or TCP connection of the attempt open,
\* and the session is closed before the client.
C24_NothingLeftOpen ==
  (esPath \in SSHPaths /\ esPc = "retErr") =>
    /\ \A k \in {"tcp", "client", "session"} : esRes[k] /= "open"
    /\ \A i \in EsPos("close", "session"), j \in EsPos("close", "client") : i < j

C24_Witness ==
  /\ esPath = "callhome.SSHListener.Accept" /\ esPc = "retErr"
  /\ esRes.session = "closed" /\ esRes.client = "closed" /\ esRes.tcp = "closed"

\* the library calls and the closes of the attempt, in order
EsSteps ==
  LET IsStep(e) == e.k \in {"call", "close"}
  IN SelectSeq(esLog, IsStep)

\* the steps of an SSH establishment that fails at `stage` ("none": succeeds)
\* once the TCP connection exists, and the resources it ends with
SSHStages == {"handshake", "session", "subsystem", "none"}
SSHStepsAt(stage) ==
  CASE stage = "handshake" ->
         <<EsEv("call", "NewClientConn", TRUE), EsEv("close", "tcp", FALSE)>>
    [] stage = "session" ->
         <<EsEv("call", "NewClientConn", FALSE), EsEv("call", "NewSession", TRUE),
           EsEv("close", "client", FALSE)>>
    [] stage = "subsystem" ->
         <<EsEv("call", "NewClientConn", FALSE), EsEv("call", "NewSession", FALSE),
           EsEv("call", "RequestSubsystem", TRUE),
           EsEv("close", "session", FALSE), EsEv("close", "client", FALSE)>>
    [] OTHER ->
         <<EsEv("call", "NewClientConn", FALSE), EsEv("call", "NewSession", FALSE),
           EsEv("call", "RequestSubsystem", FALSE)>>
SSHResAt(stage) ==
  CASE stage = "handshake" -> [EstRes EXCEPT !.tcp = "closed"]
    [] stage = "session" -> [EstRes EXCEPT !.tcp = "closed", !.client = "closed"]
    [] stage = "subsystem" ->
         [tcp |-> "closed", client |-> "closed", session |-> "closed", deadline |-> "none"]
    [] OTHER ->
         [tcp |-> "open", client |-> "open", session |-> "open", deadline |-> "none"]

\* C31: once the TCP connection exists, call-home SSHListener.Accept and
\* client SSHDialer.Dial go through one and the same table: the same library
\* calls in the same order, a connection exactly when all three succeeded,
\* and at each failure stage the same closes and the same resources left.
C31_AcceptMirrorsDial ==
  (esPath \in SSHPaths /\ esRes.tcp /= "none") =>
    /\ \E stage \in SSHStages :
         \E n \in 0..Len(SSHStepsAt(stage)) : EsSteps = SubSeq(SSHStepsAt(stage), 1, n)
    /\ esPc \in {"retConn", "retErr"} =>
         \E stage \in SSHStages :
           /\ EsSteps = SSHStepsAt(stage)
           /\ esRes = SSHResAt(stage)
           /\ esPc = (IF stage = "none" THEN "retConn" ELSE "retErr")

\* Accept failed at the subsystem request
C31_Witness ==
  /\ esPath = "callhome.SSHListener.Accept" /\ esPc = "retErr"
  /\ EsSteps = SSHStepsAt("subsystem") /\ esRes = SSHResAt("subsystem")

\* Dial of the Call Home server dialer returned an error
DialFailed == dret \notin {"none", "conn"}

\* C25: whenever the Call Home server SSHDialer.Dial returns an error after
\* the TCP connection was opened, the TCP connection and the SSH server
\* connection of that attempt have been closed.
C25_DialErrorClosesConn ==
  (proto = "ssh" /\ DialFailed /\ own["D"].tcp /= "none") =>
    /\ own["D"].tcp = "closed"
    /\ own["D"].sec /= "open"

\* the Transports that hold a connection
Holding == {t \in TrIds : tstat[t] = "live" /\ tconn[t] /= "nil"}

\* the variants whose Dial returns the caller's connection itself
ConnReuseKinds == {"TLSConnDialer", "CHSSHConnDialer", "CHTLSConnDialer"}

\* C26 (as stated): the connections of two Transports are never the same
\* object, whatever the Dialer.
C26_AlwaysFresh ==
  \A t1, t2 \in Holding :
    t1 /= t2 => ConnObject(tconn[t1], t1) /= ConnObject(tconn[t2], t2)

\* C26 (amended): two Transports hold the same connection object exactly
\* when they were made from one connection-reusing Dialer; every other
\* Dialer hands out a fresh object per Dial.
C26_FreshUnlessReused ==
  \A t1, t2 \in Holding :
    t1 /= t2 =>
      (ConnObject(tconn[t1], t1) = ConnObject(tconn[t2], t2) <=> dkind \in ConnReuseKinds)

C26_Witness ==
  /\ dkind = "CHSSHConnDialer"
  /\ Holding = {1, 2}
  /\ ConnObject(tconn[1], 1) = ConnObject(tconn[2], 2)
  /\ ext = "open"

\* the SSH handshake of Dial has nothing to return for: no result of the
\* negotiation yet, and the peer still there
HandshakePending ==
  dpc = "handshake" /\ hs = "none" /\ tcp /= "reset" /\ own["L"].tcp /= "closed"

\* C27: once the TCP connection exists, the Call Home server SSHDialer.Dial
\* does not look at its context: with the handshake pending, or with no value
\* yet on the signalling channel, Dial stays blocked even when the context
\* has expired; the TLS dialer's handshake does end when the deadline passes.
C27_ContextOnlyAtTCP ==
  /\ (proto = "ssh" /\ HandshakePending) => ~ENABLED DialHandshake
  /\ (proto = "ssh" /\ dpc = "wait" /\ subsystemChan = <<>>) => ~ENABLED DialerStep
  /\ (proto = "tls" /\ dpc = "handshake" /\ ctx["D"] = "expired") =>
       /\ own["D"].deadline = "set"
       /\ ENABLED DialHandshake

\* Dial blocked on the signalling channel, its context expired
C27_Witness ==
  /\ proto = "ssh" /\ ctx["D"] = "expired"
  /\ dpc = "wait" /\ subsystemChan = <<>> /\ dret = "none"
  /\ own["D"].sec = "open"

\* an accept of the TLS Server's loop failed
ServerAcceptFailed == \E i \in 1..Len(epLog) : epLog[i] = Returned("Accepted", "tcp", 0)

\* C28: after a failed accept on its listening socket, still open, the plain
\* TLS Server keeps serving: the accept loop runs and can hand a later
\* connection to a handler.
C28_ServerKeepsServing ==
  (epKind \in Servers /\ ServerAcceptFailed /\ epSock = "open") =>
    /\ epLoop = "running"
    /\ Len(epLog) < MaxCalls => ENABLED AcceptConnections("ok")

\* ------------------------------------------- claims: SSH stream wrappers
InitWrapper ==
  /\ dkind = "SSHDialer"
  /\ ntr = 0
  /\ tstat = [t \in TrIds |-> "none"]
  /\ tconn = [t \in TrIds |-> "nil"]
  /\ res = [t \in TrIds |-> NoRes]
  /\ ext = "none"
  /\ nops = 0
  /\ log = NoLog
  /\ cfgIn = [f \in CfgFields |-> 0]
  /\ cfgResolved = <<>>
  /\ defaultConfig = [f \in CfgFields |-> 1]
  /\ TraceIdle
  /\ EndpointIdle
  /\ EstablishIdle
  /\ swKind \in WrapperKinds \cup {ServerCallhomeConn}
  /\ swPipes = NewWrapper(swKind)
  /\ swReqs = [reader |-> 0, writer |-> 0]
  /\ swLog = <<>>
  /\ CallHomeIdle

NextWrapper == WrapperRead \/ WrapperWrite \/ WrapperClose

SpecWrapper == InitWrapper /\ [][NextWrapper]_vars

DirOf == [Read |-> "reader", Write |-> "writer"]

\* C29: per direction an SSH stream wrapper in use (one of the three lazy
\* kinds, not yet closed) is unopened, then opened: calls
\* request the pipe until one request succeeds, that call opens the
\* direction, no later call requests a pipe, and a call whose request failed
\* returns (0, error) and leaves the direction unopened.
C29_LazyPipeOnce ==
  (swKind \in WrapperKinds /\ ~WrapperClosed) => \A op \in {"Read", "Write"} :
    LET calls == {i \in 1..Len(swLog) : swLog[i].op = op}
        opened == {i \in calls : swLog[i].got}
    IN /\ Cardinality(opened) <= 1
       /\ swPipes[DirOf[op]] = (IF opened = {} THEN "none" ELSE "open")
       /\ \A i \in calls : swLog[i].req <=> (\A j \in opened : i <= j)
       /\ \A i \in calls : (swLog[i].req /\ ~swLog[i].got) =>
                             (swLog[i].n = 0 /\ swLog[i].err)
       /\ swReqs[DirOf[op]] = Cardinality({i \in calls : swLog[i].req})

\* a Read whose pipe request failed, a Read that opened the pipe, and a Read
\* that reused it
C29_Witness ==
  /\ swKind = "sshCallhomeConn"
  /\ Len(swLog) = 3
  /\ swLog[1] = WrapperRet("Read", TRUE, FALSE, 0, TRUE)
  /\ swLog[2] = WrapperRet("Read", TRUE, TRUE, 1, FALSE)
  /\ swLog[3] = WrapperRet("Read", FALSE, FALSE, 1, FALSE)
  /\ swReqs.reader = 2 /\ swPipes.reader = "open"

\* ------------------------------------- claims: Call Home dialer, trace
DHooks(name) == {i \in 1..Len(clog["D"]) : clog["D"][i] = CHook(name, FALSE)
                                           \/ clog["D"][i] = CHook(name, TRUE)}

\* C32: every Call Home server Dial that returned has emitted DialDone once,
\* after DialStart, and DialDone carried an error exactly when Dial returned
\* one, also when the failure was in the channel or subsystem negotiation.
C32_DialDoneMatchesReturn ==
  dpc = "done" =>
    /\ Cardinality(DHooks("DialDone")) = 1
    /\ Cardinality(DHooks("DialStart")) = 1
    /\ \A i \in DHooks("DialStart"), j \in DHooks("DialDone") :
         /\ i < j
         /\ clog["D"][j].err <=> DialFailed

\* the names of the hooks Dial has invoked, in order
DHookNames ==
  LET IsHook(e) == e.k = "hook"
      hooks == SelectSeq(clog["D"], IsHook)
  IN [i \in 1..Len(hooks) |-> hooks[i].name]

SSHDialHookOrders ==
  {<<>>, <<"DialStart">>, <<"DialStart", "DialDone">>,
   <<"DialStart", "SSHConnected">>, <<"DialStart", "SSHConnected", "DialDone">>,
   <<"DialStart", "SSHConnected", "SubsystemReady", "DialDone">>}

SubsystemGranted ==
  \E i \in 1..Len(replies) :
    replies[i].k = "req" /\ replies[i].ok /\ IsNetconfSubsystem(replies[i].req)

\* C33: the hooks of one Call Home server SSH Dial come in the order
\* DialStart, SSHConnected, SubsystemReady, DialDone; SSHConnected only after
\* the SSH handshake succeeded, SubsystemReady only after the netconf
\* subsystem request was granted and exactly when Dial returns a connection,
\* and DialDone is the last entry once Dial has returned.
C33_DialHookOrder ==
  proto = "ssh" =>
    /\ DHookNames \in SSHDialHookOrders
    /\ DHooks("SSHConnected") /= {} => (hs = "ok" /\ own["D"].sec = "open")
    /\ DHooks("SubsystemReady") /= {} => SubsystemGranted
    /\ DHooks("SubsystemReady") /= {} <=> dret = "conn"
    /\ dpc = "done" <=> DHooks("DialDone") /= {}
    /\ dpc = "done" => clog["D"][Len(clog["D"])].name = "DialDone"

C33_Witness ==
  /\ proto = "ssh" /\ dret = "conn"
  /\ DHookNames = <<"DialStart", "SSHConnected", "SubsystemReady", "DialDone">>

\* ------------------------- claims: Call Home dialer, request servicing
\* the goroutine takes a request that does not name the netconf subsystem
\* off the stream while it is still looking for that request
TakesOtherRequest ==
  /\ gpc = "outer"
  /\ requests /= <<>> /\ requests' = Tail(requests)
  /\ ~NamesNetconf(Head(requests))

\* C34: before the netconf subsystem request, every request that is not one
\* is answered negatively and leaves the goroutine looking for the request,
\* so that a netconf subsystem request arriving later is still granted.
C34_RefuseAndContinue ==
  [][TakesOtherRequest =>
       /\ replies' = Append(replies, ReqReply(Head(requests), FALSE))
       /\ gpc' = "outer"]_vars

\* ------------------------------------------ claims: closing a wrapper
CallhomeWrappers == {"sshCallhomeConn", ServerCallhomeConn}

\* the SSH client / server connection under the wrapper
Underlying == IF swKind = ServerCallhomeConn THEN swPipes.conn ELSE swPipes.client

\* C35: once Close on a connection of the call-home SSHListener.Accept or of
\* the Call Home server SSHDialer.Dial has returned, the SSH client / server
\* connection under it has been closed, whatever Close returned.
C35_CloseReachesConnection ==
  (swKind \in CallhomeWrappers /\ WrapperClosed) => Underlying = "closed"

\* C36: the goroutine of an accepted session channel sends one value on
\* subsystemChan and finds room for it: nothing is in the channel while it
\* is still looking for the request, one value is there for the waiting
\* handleChannels once it has found it or seen the stream end; so the wait
\* ends, and the goroutine ends, once the request stream is closed.
C36_OneSignalNoBlocking ==
  /\ [](gpc = "outer" => subsystemChan = <<>>)
  /\ []((gpc \in {"inner", "done"} /\ dpc = "wait") => Len(subsystemChan) = 1)
  /\ (gpc /= "none" /\ closed.requests) ~> (gpc = "done")
  /\ (dpc = "wait" /\ closed.requests) ~> (dpc = "done")

\* the "subsystem" requests too short to hold the length prefix
ShortSubsystemRequests == {req \in RawRequests : SlicePanics(req)}

\* C37: no request payload, of any length, drives the request-servicing
\* goroutine into a failure state: a "subsystem" request with fewer than 4
\* payload bytes is answered negatively like any other non-matching request.
C37_NoPayloadPanics ==
  /\ gpc /= "panic"
  /\ \A i \in 1..Len(ReqReplies) :
       ReqReplies[i].req \in ShortSubsystemRequests => ~ReqReplies[i].ok

\* ------------------------------ claims: Call Home dialer, channel-opens
OpenReplies == RepliesOf("open")

\* handleChannels has taken a "session" channel-open, or has returned
PastChannelLoop == dpc \in {"wait", "done"}

\* C38: per Call Home server SSH Dial at most one channel is accepted, a
\* "session" channel, and it is the last channel-open the dialer answers:
\* everything answered before it is a rejection of another type, and once
\* its negotiation has begun or Dial has returned no channel-open is taken
\* off the stream, accepted or rejected.
C38_OneSessionChannel ==
  /\ [](/\ Cardinality({i \in 1..Len(OpenReplies) : OpenReplies[i].ok}) <= 1
        /\ \A i \in 1..Len(OpenReplies) :
             /\ OpenReplies[i].ok <=> OpenReplies[i].ty = "session"
             /\ OpenReplies[i].ok => i = Len(OpenReplies))
  /\ [][PastChannelLoop =>
          /\ RepliesOf("open")' = RepliesOf("open")
          /\ \/ chans' = chans
             \/ \E ty \in ChannelTypes : chans' = Append(chans, ty)]_vars

\* Dial returned the connection of the first session channel while a second
\* channel-open of the peer is still unanswered
C38_Witness ==
  /\ dret = "conn" /\ chans /= <<>>
  /\ Len(OpenReplies) >= 1 /\ OpenReplies[Len(OpenReplies)].ok

\* ------------------------------------- claims: the TLS Server's accept loop
\* the accept loop has just come out of a handshake
HandshakeReturned == epLoop = "handshaking" /\ epLoop' /= "handshaking"

\* C39: in the plain TLS Server a failed handshake closes the accepted
\* connection, gives it to no handler and leaves the accept loop running;
\* the loop holds at most one connection in the handshake and accepts no
\* other meanwhile; a handler runs on its own: with handlers running the
\* loop still accepts, and a handler can finish whatever the loop is doing.
C39_HandshakeInLoop ==
  /\ [](epKind \in Servers =>
          /\ Cardinality(PendingConns(epConns)) <= 1
          /\ epLoop = "handshaking" <=> PendingConns(epConns) /= {}
          /\ epLoop = "handshaking" => ~ENABLED AcceptConnections("ok")
          /\ (epLoop = "running" /\ epSock = "open" /\ Len(epLog) < MaxCalls)
               => ENABLED AcceptConnections("ok")
          /\ \A c \in ConnIds : epConns[c] = "open" => ENABLED EndpointConnClose(c))
  /\ [][HandshakeReturned =>
          \E c \in PendingConns(epConns) :
            /\ epLoop' = "running"
            /\ epConns'[c] \in {"open", "refused"}
            /\ epConns'[c] = "refused" <=>
                 epLog' = Append(epLog, Returned("TLSHandshake", "handshake", c))]_vars
  /\ [][\A c \in ConnIds : epConns[c] = "refused" => epConns'[c] = "refused"]_vars

\* a handler is running, a later connection failed its handshake, and the
\* loop is back in Accept
C39_Witness ==
  /\ epKind \in Servers /\ epLoop = "running"
  /\ epConns[1] = "open" /\ epConns[2] = "refused"

\* ------------------------------------ claims: Call Home listener, Accept
\* Accept is blocked in listener.Accept()
WaitingForTCP == apc = "accept"

\* C40: Accept on a Call Home listener (SSH and TLS) does not observe its
\* context while it waits for a TCP connection: with no connection coming in
\* and the listening socket open it stays blocked, context expired or not,
\* and it leaves the wait only when a connection has arrived or the
\* listening socket is closed.
C40_AcceptIgnoresContext ==
  /\ []((WaitingForTCP /\ tcp /= "backlog" /\ lsock = "open") => ~ENABLED AcceptTCP)
  /\ [][(WaitingForTCP /\ ~WaitingForTCP') => (tcp = "backlog" \/ lsock = "closed")]_vars

\* Accept still blocked although its context has expired
C40_Witness ==
  /\ WaitingForTCP /\ ctx["L"] = "expired"
  /\ tcp = "none" /\ lsock = "open" /\ aret = "none"

====
